---- MODULE Spec2Model ----
(***************************************************************************)
(* Carnevale card parser: the page parser (parse_all_factions.py and       *)
(* parse_cards.py), the validation battery (test_validation.py), the batch *)
(* runner (test_all_factions.py) and the build script                      *)
(* (build_and_deploy.py), as state machines.                               *)
(*                                                                         *)
(* A page text is a sequence of lines.  A line is a record                 *)
(*   [kind, words, ds, len]                                                *)
(* kind  : "blank" | "text" | "header" | "version" | "number" | "digits"   *)
(* words : the words of the line (text and header lines)                   *)
(* ds    : the digits of the line (number and digits lines)                *)
(* len   : the length of the stripped line in characters                   *)
(* An optional value (Python None) is <<>>, a present value v is <<v>>.    *)
(***************************************************************************)
EXTENDS Integers, Sequences, FiniteSets, TLC

VARIABLES
  parser,      \* "universal" (parse_all_factions.py) | "enhanced" (parse_cards.py)
  text,        \* the page text handed to the card parser
  page_num,    \* the page number handed to the card parser
  result,      \* what the card parser returned (<<>> before the call)
  cpc          \* "call" | "returned"

cardVars == <<parser, text, page_num, result, cpc>>

VARIABLES
  pages,            \* the extracted-text file: a list of [page, text]
  idx,              \* pages consumed by the page loop
  cards,            \* the card list built so far
  faction_ability,  \* {} (<<>>) or [name, description]
  lpc               \* "loop" | "done"

loopVars == <<pages, idx, cards, faction_ability, lpc>>

VARIABLES
  json_data,        \* the parsed-cards file of the validator
  extracted_data,   \* the extracted-text file of the validator
  parsed_abilities, \* the reference file of the validator
  errors,           \* self.errors: the test name of each error, in order
  passed,           \* run_all_tests: checks counted as passed
  ran,              \* the checks run_all_tests has called, in order
  test_result,      \* what the last call test() returned, <<>> when it raised
  vpc               \* "run" | "done" | "aborted"

valVars == <<json_data, extracted_data, parsed_abilities, errors, passed, ran,
             test_result, vpc>>

VARIABLES
  abilities_file,   \* parsed_abilities.json: "ok" | "missing" | "unreadable"
  faction_pairs,    \* the faction files found under output/, in glob order
  fi,               \* factions the batch loop has gone through
  total_passed,
  total_tests,
  failed_factions,  \* indices of the factions reported as failed
  visited,          \* indices of the factions whose loop body ran to its end
  bpc               \* position of test_all_factions.main, or how it ended

batchVars == <<abilities_file, faction_pairs, fi, total_passed, total_tests,
               failed_factions, visited, bpc>>

VARIABLES
  env,              \* what build_and_deploy.main finds on disk
  step,             \* position of build_and_deploy.main, or how it ended
  parsing_ran,      \* the parser's main ran during this build
  validation_ran,   \* the batch validator's main ran during this build
  deployed          \* the card files copied to the webapp

buildVars == <<env, step, parsing_ran, validation_ran, deployed>>

\* separate_concatenated_abilities(item, known_abilities) and
\* normalize_ability_name(ability_name, known_abilities)
VARIABLES
  item,             \* the blob handed to the segmenter
  ability_name,     \* the candidate handed to the matcher
  known_abilities,  \* the reference list
  separated,        \* the segmenter's return value
  matched,          \* the matcher's return value
  reference_file,   \* parsed_abilities.json: <<>> when absent, else <<its common list>>
  loaded,           \* what load_known_abilities returned, call after call
  apc               \* "idle", "call", "done"

abilVars == <<item, ability_name, known_abilities, separated, matched, reference_file,
              loaded, apc>>

vars == <<cardVars, loopVars, valVars, batchVars, buildVars, abilVars>>

-----------------------------------------------------------------------------
(* Bounds of the model *)

MaxDigit == 3        \* stat digits range over 0..MaxDigit
MaxLines == 2        \* trailing lines of a page (after the stat digits)
MaxPageNum == 3      \* page numbers range over 1..MaxPageNum
MaxPages == 3        \* pages of an extracted-text file
MaxDefects == 2      \* defects planted together in one validated dataset
MaxFactions == 2     \* faction files found under output/

(* Program constants *)

NameCeiling == 50        \* len(line) < 50
StatMinDigits == 2       \* \d{2,6}
StatMaxUniversal == 6    \* \d{2,6}
StatMaxEnhanced == 5     \* \d{2,5}
EndMaxDigits == 6        \* end_pattern \d{2,6}

None == <<>>
Some(v) == <<v>>

Parsers == {"universal", "enhanced"}

-----------------------------------------------------------------------------
(* Lines and page texts *)

Line(k, w, d, n) == [kind |-> k, words |-> w, ds |-> d, len |-> n]

BlankLine == Line("blank", <<>>, <<>>, 0)
VersionLine == Line("version", <<"2.1.0">>, <<>>, 5)
HeaderLine(w) == Line("header", w, <<>>, NameCeiling - 1)
DigitsLine(d) == Line("digits", <<>>, d, Len(d))
\* the base-size/ducats line: "3010", "30 8" or a single number "5"
NumberLines ==
  { Line("number", <<"four">>, <<30, 10>>, 4),
    Line("number", <<"spaced">>, <<30, 8>>, 4),
    Line("number", <<"single">>, <<5>>, 1) }

\* the header phrases a card carries above its fused stat digits
Headers ==
  { <<"Actions", "Life", "Will", "Command">>,
    <<"Actions", "Life", "Command">>,
    <<"Actions", "Life", "Command", "Will">>,
    <<"Actions", "Life", "Will">>,
    <<"Actions", "Life">>,
    <<>> }

\* free lines: a card name, a name holding the word Will, and two
\* description lines on either side of the name-length ceiling
TextLines ==
  { BlankLine,
    Line("text", <<"Pantalone">>, <<>>, 9),
    Line("text", <<"Iron", "Will">>, <<>>, 9),
    Line("text", <<"Just", "under">>, <<>>, NameCeiling - 1),
    Line("text", <<"Too", "long">>, <<>>, NameCeiling) }

SeqsUpTo(S, n) == UNION { [1..k -> S] : k \in 0..n }

DigitRuns(maxLen) == SeqsUpTo(0..MaxDigit, maxLen)

\* a page: header line, the version/number/digits block, trailing lines.
\* hdr = <<>> leaves the header line out, vb = FALSE the version and number
\* lines, run = <<>> the digits line.
MkText(hdr, vb, num, run, tail) ==
  (IF hdr = <<>> THEN <<>> ELSE <<HeaderLine(hdr)>>)
  \o (IF vb THEN <<VersionLine, num>> ELSE <<>>)
  \o (IF run = <<>> THEN <<>> ELSE <<DigitsLine(run)>>)
  \o tail

-----------------------------------------------------------------------------
(* Text searches *)

\* phrase occurs in the line as a contiguous run of words
PhraseInLine(phrase, line) ==
  \E i \in 0..(Len(line.words) - Len(phrase)) :
    \A j \in 1..Len(phrase) : line.words[i + j] = phrase[j]

\* Python's  phrase in card_text
PhraseIn(phrase, t) == \E i \in 1..Len(t) : PhraseInLine(phrase, t[i])

\* variant: a line of exactly fifty characters also taken as the name
IsNameUniversal_inclusive(line) == line.len > 0 /\ line.len <= NameCeiling

IsNameUniversal(line) == line.len > 0 /\ line.len < NameCeiling
IsNameEnhanced(line) == line.len > 0

IsName(p, line) == IF p = "universal" THEN IsNameUniversal(line) ELSE IsNameEnhanced(line)

\* for line in reversed(lines): index of the first line taken as the name,
\* 0 when the loop ends without one
RECURSIVE LastNameIndex(_, _, _)
LastNameIndex(p, t, i) ==
  IF i = 0 THEN 0
  ELSE IF IsName(p, t[i]) THEN i
  ELSE LastNameIndex(p, t, i - 1)

FindName(p, t) ==
  LET i == LastNameIndex(p, t, Len(t))
  IN IF i = 0 THEN None ELSE Some(t[i])

\* next non-blank line index after i, 0 when none  (\s*\n\s* skips blank lines)
RECURSIVE NextNonBlank(_, _)
NextNonBlank(t, i) ==
  IF i >= Len(t) THEN 0
  ELSE IF t[i + 1].kind # "blank" THEN i + 1
  ELSE NextNonBlank(t, i + 1)

\* positions of a version line followed by a number line followed by a
\* digits line of at least StatMinDigits digits
StatBlockAt(t, i) ==
  /\ t[i].kind = "version"
  /\ LET j == NextNonBlank(t, i) IN
     /\ j # 0
     /\ t[j].kind = "number"
     /\ LET k == NextNonBlank(t, j) IN
        /\ k # 0
        /\ t[k].kind = "digits"
        /\ Len(t[k].ds) >= StatMinDigits

StatBlockPositions(t) == { i \in 1..Len(t) : StatBlockAt(t, i) }

Min(S) == CHOOSE x \in S : \A y \in S : x <= y

Prefix(s, n) == IF Len(s) <= n THEN s ELSE SubSeq(s, 1, n)

StatMax(p) == IF p = "universal" THEN StatMaxUniversal ELSE StatMaxEnhanced

\* re.search(stats_pattern, card_text): None, or [version, number, stats_string]
\* of the first match; the last group takes at most StatMax(p) digits
StatsMatch(p, t) ==
  LET ps == StatBlockPositions(t) IN
  IF ps = {} THEN None
  ELSE LET i == Min(ps)
           j == NextNonBlank(t, i)
           k == NextNonBlank(t, j)
       IN Some([version |-> t[i].words[1],
                number |-> t[j],
                stats_string |-> Prefix(t[k].ds, StatMax(p)),
                at |-> k])

-----------------------------------------------------------------------------
(* The stat-block decoder *)

\* int(s) of a digit string; Python raises ValueError on the empty string
RECURSIVE DigitsToInt(_)
DigitsToInt(s) ==
  IF s = <<>> THEN 0
  ELSE DigitsToInt(SubSeq(s, 1, Len(s) - 1)) * 10 + s[Len(s)]

IntOf(s) == IF s = <<>> THEN [raised |-> TRUE, v |-> 0]
            ELSE [raised |-> FALSE, v |-> DigitsToInt(s)]

\* Python slice s[a:b] with 0 <= a and b counted from the end when negative
Slice(s, a, b) ==
  LET hi == IF b < 0 THEN Len(s) + b ELSE b
  IN IF hi <= a THEN <<>> ELSE SubSeq(s, a + 1, hi)

HasCommandUniversal(t) ==
  \/ PhraseIn(<<"Actions", "Life", "Will", "Command">>, t)
  \/ PhraseIn(<<"Actions", "Life", "Command">>, t)
  \/ PhraseIn(<<"Command", "Will">>, t)
HasWillUniversal(t) == PhraseIn(<<"Will">>, t)

HasCommandEnhanced(t) == PhraseIn(<<"Actions", "Life", "Will", "Command">>, t)
HasWillEnhanced(t) == PhraseIn(<<"Life", "Will">>, t)

HasCommand(p, t) == IF p = "universal" THEN HasCommandUniversal(t) ELSE HasCommandEnhanced(t)
HasWill(p, t) == IF p = "universal" THEN HasWillUniversal(t) ELSE HasWillEnhanced(t)

Fields(a, l, w, c) ==
  ("actions" :> a) @@ ("life" :> l) @@ ("will" :> w) @@ ("command" :> c)

NoFields == [k \in {} |-> 0]

\* variant: the will digit read a second time as the last digit of life
DecodeWithCommand_overlap(s, has_will) ==
  IF has_will /\ Len(s) >= 3
  THEN Fields(s[1], IntOf(Slice(s, 1, -1)).v, s[Len(s) - 1], Some(s[Len(s)]))
  ELSE Fields(s[1], IntOf(Slice(s, 1, -1)).v, 0, Some(s[Len(s)]))

\* the branch of the decoder taken with a command header
DecodeWithCommand(s, has_will) ==
  IF has_will /\ Len(s) >= 3
  THEN Fields(s[1],
              IF Len(s) > 3 THEN IntOf(Slice(s, 1, -2)).v ELSE 0,
              s[Len(s) - 1],
              Some(s[Len(s)]))
  ELSE Fields(s[1], IntOf(Slice(s, 1, -1)).v, 0, Some(s[Len(s)]))

\* variant: the will header ignored, every digit after actions read as life
DecodeWithoutCommand_nowill(s, has_will) ==
  Fields(s[1], IntOf(Slice(s, 1, Len(s))).v, 0, None)

\* the branch of the decoder taken without a command header
DecodeWithoutCommand(s, has_will) ==
  IF has_will /\ Len(s) >= 3
  THEN Fields(s[1], IntOf(Slice(s, 1, -1)).v, s[Len(s)], None)
  ELSE Fields(s[1], IntOf(Slice(s, 1, Len(s))).v, 0, None)

\* the int() calls the taken branch makes
DecodeInts(s, has_command, has_will) ==
  IF has_command /\ Len(s) >= 4
  THEN IF has_will /\ Len(s) >= 3
       THEN (IF Len(s) > 3 THEN {Slice(s, 1, -2)} ELSE {})
       ELSE {Slice(s, 1, -1)}
  ELSE IF ~has_command /\ Len(s) >= 2
  THEN IF has_will /\ Len(s) >= 3
       THEN {Slice(s, 1, -1)}
       ELSE {Slice(s, 1, Len(s))}
  ELSE {}

DecodeRaises(s, has_command, has_will) ==
  \E x \in DecodeInts(s, has_command, has_will) : IntOf(x).raised

\* if has_command and len >= 4: ... elif not has_command and len >= 2: ...
\* the keys assigned from a matched stats_string; no key when neither arm runs
DecodeStats(s, has_command, has_will) ==
  IF has_command /\ Len(s) >= 4 THEN DecodeWithCommand(s, has_will)
  ELSE IF ~has_command /\ Len(s) >= 2 THEN DecodeWithoutCommand(s, has_will)
  ELSE NoFields

DefaultVersion == "2.2.0"

\* variant: a default life of 1
DefaultStats_life1 == ("version" :> DefaultVersion) @@ Fields(0, 1, 0, None)

\* else-arm of  if stats_match:  the defaults
DefaultStats == ("version" :> DefaultVersion) @@ Fields(0, 0, 0, None)

\* version, actions, life, will, command of the card
StatKeys(p, t) ==
  LET m == StatsMatch(p, t) IN
  IF m = None THEN DefaultStats
  ELSE ("version" :> m[1].version)
       @@ DecodeStats(m[1].stats_string, HasCommand(p, t), HasWill(p, t))

StatRaises(p, t) ==
  LET m == StatsMatch(p, t) IN
  m # None /\ DecodeRaises(m[1].stats_string, HasCommand(p, t), HasWill(p, t))

-----------------------------------------------------------------------------
(* The card assembler *)

HasLetters(line) == line.kind \in {"text", "header"}

\* re.search(end_pattern, ...): version, number, 2..6 digits ending their
\* line, then a letter somewhere after; None or the number line
EndMatch(t) ==
  LET ps == { i \in StatBlockPositions(t) :
                LET k == NextNonBlank(t, NextNonBlank(t, i)) IN
                /\ Len(t[k].ds) <= EndMaxDigits
                /\ \E m \in (k + 1)..Len(t) : HasLetters(t[m]) }
  IN IF ps = {} THEN None ELSE Some(t[NextNonBlank(t, Min(ps))])

\* base_size and ducats from the number line: "30 8" split in two, a
\* four-character "3010" cut in the middle, anything else 0 and 0
DucatKeys(t) ==
  LET m == EndMatch(t) IN
  IF m = None THEN ("ducats" :> 0) @@ ("base_size" :> 0)
  ELSE IF m[1].words = <<"spaced">> /\ Len(m[1].ds) = 2
       THEN ("base_size" :> m[1].ds[1]) @@ ("ducats" :> m[1].ds[2])
  ELSE IF m[1].words # <<"spaced">> /\ m[1].len = 4
       THEN ("base_size" :> m[1].ds[1]) @@ ("ducats" :> m[1].ds[2])
  ELSE ("ducats" :> 0) @@ ("base_size" :> 0)

\* re.findall(r'\d+', text): the numbers of a line in order
LineNumbers(line) ==
  IF line.kind = "version" THEN <<2, 1, 0>>
  ELSE IF line.kind = "number"
       THEN (IF line.words = <<"four">> THEN <<line.ds[1] * 100 + line.ds[2]>> ELSE line.ds)
  ELSE IF line.kind = "digits" THEN <<DigitsToInt(line.ds)>>
  ELSE <<>>

RECURSIVE Numbers(_)
Numbers(t) == IF t = <<>> THEN <<>> ELSE LineNumbers(Head(t)) \o Numbers(Tail(t))

\* parse_stats_line: no MOVEMENT ... MIND header line in these pages, so the
\* fallback runs: the last five numbers of the text, or {} when fewer
parse_stats_line(t) ==
  LET ns == Numbers(t)
      n == Len(ns) IN
  IF n >= 5
  THEN ("movement" :> ns[n - 4]) @@ ("dexterity" :> ns[n - 3]) @@ ("attack" :> ns[n - 2])
       @@ ("protection" :> ns[n - 1]) @@ ("mind" :> ns[n])
  ELSE NoFields

\* parse_keywords_and_rank: ([], None) when the Keywords anchor is absent
parse_keywords_and_rank(t) == [keywords |-> <<>>, rank |-> None]

(* The weapon table: parse_weapons. A table row is a line of kind "row"   *)
(* whose words are its characters: a word of the name or of the abilities, *)
(* a digit, a sign, the inch mark or a blank.                              *)

DigitSyms == {"0", "1", "2"}

Max(S) == CHOOSE x \in S : \A y \in S : y <= x

\* str.isspace(): a blank or a line break
IsSpace(c) == c \in {" ", "\n"}

\* s.strip()
Strip(s) ==
  LET solid == { i \in 1..Len(s) : ~IsSpace(s[i]) } IN
  IF solid = {} THEN <<>> ELSE SubSeq(s, Min(solid), Max(solid))

\* the digits standing at position p and after
RECURSIVE DigitRun(_, _)
DigitRun(r, p) ==
  IF p > Len(r) \/ r[p] \notin DigitSyms THEN 0 ELSE 1 + DigitRun(r, p + 1)

Inch == "\""

\* ^([^"]+)\s+ : the name is the longest run without an inch mark that a
\* blank follows; 0 when there is none
NameEnd(line) ==
  LET ks == { k \in 1..(Len(line) - 1) :
                line[k + 1] = " " /\ \A i \in 1..k : line[i] # Inch }
  IN IF ks = {} THEN 0 ELSE Max(ks)

\* \s* : the first position from p on that holds no blank
SkipBlanks(line, p) ==
  LET solid == { q \in p..Len(line) : line[q] # " " } IN
  IF solid = {} THEN Len(line) + 1 ELSE Min(solid)

\* (\d+"|-)? at position p
RangeAt(line, p) ==
  LET d == DigitRun(line, p) IN
  IF d >= 1 /\ p + d <= Len(line) /\ line[p + d] = Inch THEN Some(SubSeq(line, p, p + d))
  ELSE IF p <= Len(line) /\ line[p] = "-" THEN Some(<<"-">>)
  ELSE None

\* ([+-]?\d+|-)? at position p
SignedAt(line, p) ==
  LET sg == IF p <= Len(line) /\ line[p] \in {"+", "-"} THEN 1 ELSE 0
      d == DigitRun(line, p + sg)
  IN IF d >= 1 THEN Some(SubSeq(line, p, p + sg + d - 1))
     ELSE IF p <= Len(line) /\ line[p] = "-" THEN Some(<<"-">>)
     ELSE None

GroupLen(g) == IF g = None THEN 0 ELSE Len(g[1])

Dash == <<"-">>

\* variant: a dash kept as the value
OrDefault_keep(g, default) == IF g # None THEN g[1] ELSE default

\* g if g and g != '-' else default
OrDefault(g, default) == IF g # None /\ g[1] # Dash THEN g[1] ELSE default

\* if range_val or (evasion and evasion != '-') or (damage and damage != '-')
LooksLikeWeapon(range_val, evasion, damage) ==
  \/ range_val # None
  \/ evasion # None /\ evasion[1] # Dash
  \/ damage # None /\ damage[1] # Dash

\* the groups the weapon pattern takes from a stripped line, None when the
\* pattern does not match
WeaponMatch(line) ==
  LET k == NameEnd(line) IN
  IF k = 0 THEN None
  ELSE LET p1 == SkipBlanks(line, k + 1)
           range_val == RangeAt(line, p1)
           p2 == SkipBlanks(line, p1 + GroupLen(range_val))
           evasion == SignedAt(line, p2)
           p3 == SkipBlanks(line, p2 + GroupLen(evasion))
           damage == SignedAt(line, p3)
           p4 == SkipBlanks(line, p3 + GroupLen(damage))
           penetration == SignedAt(line, p4)
           p5 == SkipBlanks(line, p4 + GroupLen(penetration))
       IN Some([ name |-> SubSeq(line, 1, k), range_val |-> range_val, evasion |-> evasion,
                 damage |-> damage, penetration |-> penetration,
                 abilities |-> SubSeq(line, p5, Len(line)) ])

\* the body of  for line in weapon_lines: the weapon appended, None when
\* the line is passed over
WeaponOfLine(row) ==
  LET line == Strip(row)
      m == IF line = <<>> THEN None ELSE WeaponMatch(line)
  IN IF m = None THEN None
     ELSE IF Strip(m[1].name) = <<>> THEN None
     ELSE IF LooksLikeWeapon(m[1].range_val, m[1].evasion, m[1].damage)
     THEN Some([ name |-> Strip(m[1].name),
                 range |-> OrDefault(m[1].range_val, <<"0", Inch>>),
                 evasion |-> OrDefault(m[1].evasion, <<"0">>),
                 damage |-> OrDefault(m[1].damage, <<"0">>),
                 penetration |-> OrDefault(m[1].penetration, <<"0">>),
                 abilities |-> Strip(m[1].abilities) ])
     ELSE None

\* the lines between the first weapon header that an end marker follows
\* and that marker (the MOVEMENT ... MIND header or a Keywords line)
WeaponSection(t) ==
  LET ends == { j \in 1..Len(t) : t[j].kind \in {"stats_header", "keywords"} }
      heads == { i \in 1..Len(t) : t[i].kind = "weapon_header" /\ \E j \in ends : j > i }
  IN IF heads = {} THEN None
     ELSE LET i == Min(heads)
              j == Min({ e \in ends : e > i })
          IN Some(SubSeq(t, i + 1, j - 1))

RECURSIVE WeaponsOf(_)
WeaponsOf(rows) ==
  IF rows = <<>> THEN <<>>
  ELSE WeaponOfLine(Head(rows).words) \o WeaponsOf(Tail(rows))

\* parse_weapons: [] when the weapon header is absent
parse_weapons(t) ==
  LET sec == WeaponSection(t) IN
  IF sec = None THEN <<>> ELSE WeaponsOf(sec[1])

\* enhanced_parse_abilities: three empty lists when the Character Abilities
\* anchor is absent
enhanced_parse_abilities(t) == [common |-> <<>>, unique |-> <<>>, command |-> <<>>]

ErrorResult(p, t, n) ==
  IF p = "universal"
  THEN ("error" :> "No character name found") @@ ("page" :> n)
  ELSE ("error" :> "No character name found") @@ ("page" :> n)
       @@ ("text_sample" :> Prefix(t, 1))

Raised == ("raised" :> "ValueError")

\* parse_card_universal / parse_card_enhanced
ParseCard(p, t, n) ==
  LET name == FindName(p, t) IN
  IF name = None THEN ErrorResult(p, t, n)
  ELSE IF StatRaises(p, t) THEN Raised
  ELSE ("name" :> name[1]) @@ ("page" :> n)
       @@ ("keywords" :> parse_keywords_and_rank(t).keywords)
       @@ ("rank" :> parse_keywords_and_rank(t).rank)
       @@ StatKeys(p, t)
       @@ DucatKeys(t)
       @@ ("stat_block" :> parse_stats_line(t))
       @@ ("weapons" :> parse_weapons(t))
       @@ ("abilities" :> enhanced_parse_abilities(t))

Has(r, k) == k \in DOMAIN r
IsError(r) == Has(r, "error")
IsRaised(r) == Has(r, "raised")
IsCard(r) == ~IsError(r) /\ ~IsRaised(r) /\ Has(r, "name")

-----------------------------------------------------------------------------
(* One call of the card parser *)

PageNums == 1..MaxPageNum

TailLines == SeqsUpTo(TextLines, MaxLines)

\* pages for the assembler: every shape of header, stat block and trailing
\* lines, with one digit run per length
SampleRun(n) == [i \in 1..n |-> i % (MaxDigit + 1)]

CardTexts ==
  { MkText(h, vb, num, SampleRun(n), tl) :
      h \in Headers, vb \in BOOLEAN, num \in NumberLines,
      n \in 0..(StatMaxUniversal + 1), tl \in TailLines }

\* pages for the decoder: every header and every digit run, a full stat
\* block and a name line
DecodeTexts ==
  { MkText(h, TRUE, Line("number", <<"four">>, <<30, 10>>, 4), ds, <<tl>>) :
      h \in Headers, ds \in DigitRuns(StatMaxUniversal),
      tl \in { Line("text", <<"Pantalone">>, <<>>, 9), Line("text", <<"Iron", "Will">>, <<>>, 9) } }

LoopIdle ==
  /\ pages = <<>>
  /\ idx = 0
  /\ cards = <<>>
  /\ faction_ability = <<>>
  /\ lpc = "idle"

ValIdle ==
  /\ json_data = <<>>
  /\ extracted_data = <<>>
  /\ parsed_abilities = <<>>
  /\ errors = <<>>
  /\ passed = 0
  /\ ran = <<>>
  /\ test_result = <<>>
  /\ vpc = "idle"

BatchIdle ==
  /\ abilities_file = "ok"
  /\ faction_pairs = <<>>
  /\ fi = 0
  /\ total_passed = 0
  /\ total_tests = 0
  /\ failed_factions = <<>>
  /\ visited = <<>>
  /\ bpc = "idle"

BuildIdle ==
  /\ env = <<>>
  /\ step = "idle"
  /\ parsing_ran = FALSE
  /\ validation_ran = FALSE
  /\ deployed = <<>>

AbilIdle ==
  /\ item = <<>>
  /\ ability_name = <<>>
  /\ known_abilities = <<>>
  /\ separated = <<>>
  /\ matched = <<>>
  /\ reference_file = <<>>
  /\ loaded = <<>>
  /\ apc = "idle"

CardIdle ==
  /\ parser = "universal"
  /\ text = <<>>
  /\ page_num = 0
  /\ result = <<>>
  /\ cpc = "idle"

InitCardOn(T, P) ==
  /\ LoopIdle
  /\ ValIdle
  /\ BatchIdle
  /\ BuildIdle
  /\ AbilIdle
  /\ parser \in Parsers
  /\ text \in T
  /\ page_num \in P
  /\ result = <<>>
  /\ cpc = "call"

CallParseCard ==
  /\ cpc = "call"
  /\ result' = ParseCard(parser, text, page_num)
  /\ cpc' = "returned"
  /\ UNCHANGED <<parser, text, page_num, loopVars, valVars, batchVars, buildVars, abilVars>>

InitCard == InitCardOn(CardTexts, PageNums \ {1})
InitDecode == InitCardOn(DecodeTexts, {MaxPageNum})
NextCard == CallParseCard

SpecCard == InitCard /\ [][NextCard]_vars
SpecDecode == InitDecode /\ [][NextCard]_vars

-----------------------------------------------------------------------------
(* Claims about one call of the card parser *)

CardKeys ==
  { "name", "page", "keywords", "rank", "version", "actions", "life", "will",
    "command", "ducats", "base_size", "stat_block", "weapons", "abilities" }

Returned == cpc = "returned"

\* the digit string the decoder was given, <<>> when the pattern failed
Matched == LET m == StatsMatch(parser, text) IN IF m = None THEN <<>> ELSE m[1].stats_string

has_command == HasCommand(parser, text)
has_will == HasWill(parser, text)

\* the integer written by digits a+1..b of s, 0 when there are none
RECURSIVE ValueOf(_, _, _)
ValueOf(s, a, b) == IF b <= a THEN 0 ELSE ValueOf(s, a, b - 1) * 10 + s[b]

FieldsAre(r, a, l, w, c) ==
  /\ {"actions", "life", "will", "command"} \subseteq DOMAIN r
  /\ r["actions"] = a
  /\ r["life"] = l
  /\ r["will"] = w
  /\ r["command"] = c

\* C6 (as claimed): every result without error carries all fourteen card
\* keys, whatever the header flags and whatever 2..6 digit string was matched.
C6_AllKeysPresent ==
  (Returned /\ ~IsError(result) /\ ~IsRaised(result)) => CardKeys \subseteq DOMAIN result

\* C7 (as claimed): with both header flags true and a matched string s of 2..6
\* digits, actions is s[1], command the last digit, will the second-to-last
\* digit and life the number between them (0 when no digit is left).
C7_CommandWillDecode ==
  LET s == Matched
      n == Len(s) IN
  (Returned /\ IsCard(result) /\ has_command /\ has_will /\ n >= 2)
    => FieldsAre(result, s[1], ValueOf(s, 1, n - 2), s[n - 1], Some(s[n]))

\* C8 (as claimed): without a command header command is null and actions is
\* s[1]; with a will header will is the last digit and life the number between
\* (0 when no digit is left); without one life is every digit after actions
\* and will is 0.
C8_NoCommandDecode ==
  LET s == Matched
      n == Len(s) IN
  (Returned /\ IsCard(result) /\ ~has_command /\ n >= 2)
    => IF has_will
       THEN FieldsAre(result, s[1], ValueOf(s, 1, n - 1), s[n], None)
       ELSE FieldsAre(result, s[1], ValueOf(s, 1, n), 0, None)

\* C8 (amended): as C8, except that the will digit is taken only from a
\* string of at least three digits: a two-digit string is actions then life,
\* with will 0, whether or not a will header is present.
C8_NoCommandDecodeAmended ==
  LET s == Matched
      n == Len(s) IN
  (Returned /\ IsCard(result) /\ ~has_command /\ n >= 2)
    => IF has_will /\ n >= 3
       THEN FieldsAre(result, s[1], ValueOf(s, 1, n - 1), s[n], None)
       ELSE FieldsAre(result, s[1], ValueOf(s, 1, n), 0, None)

\* a will digit was taken from a long string, and a two-digit string was
\* decoded under a will header
C8_Witness ==
  /\ Returned /\ IsCard(result) /\ ~has_command /\ has_will
  /\ Matched = <<2, 1>>
  /\ FieldsAre(result, 2, 1, 0, None)

\* an arm of the decoder ran on the matched string
AssignedOn(s) == (has_command /\ Len(s) >= 4) \/ (~has_command /\ Len(s) >= 2)
Assigned == AssignedOn(Matched)

\* the digits the decoder takes for will and command, in the order of s
TailOf(s) ==
  (IF has_will /\ Len(s) >= 3 THEN <<result["will"]>> ELSE <<>>)
    \o (IF has_command THEN result["command"] ELSE <<>>)
TailDigits == TailOf(Matched)

\* the decimal digits of n
RECURSIVE Digits(_)
Digits(n) == IF n < 10 THEN <<n>> ELSE Digits(n \div 10) \o <<n % 10>>

RECURSIVE Pow10(_)
Pow10(k) == IF k = 0 THEN 1 ELSE 10 * Pow10(k - 1)

FieldRanges ==
  /\ result["actions"] \in 0..9
  /\ result["will"] \in 0..9
  /\ result["command"] # None => result["command"][1] \in 0..9
  /\ result["life"] \in Nat

\* C30 (as claimed): when the decoder assigns from the digit string s, the
\* fields are in range and actions, the digits of life, will and command (the
\* last two when taken from s) written one after the other give the number s.
C30_FieldsReencode ==
  (Returned /\ IsCard(result) /\ Assigned)
    => /\ FieldRanges
       /\ DigitsToInt(<<result["actions"]>> \o Digits(result["life"]) \o TailDigits)
            = DigitsToInt(Matched)

\* C30 (amended): as C30, with life standing at the places s gave it: the
\* number s is actions at the first place, life at the places between and
\* will and command (when taken from s) at the last places; life as a number
\* keeps no leading zero of its places.
C30_FieldsReencodeAmended ==
  (Returned /\ IsCard(result))
    => LET s == Matched
           tail == TailOf(s)
       IN AssignedOn(s)
            => /\ FieldRanges
               /\ result["life"] < Pow10(Len(s) - 1 - Len(tail))
               /\ DigitsToInt(s)
                    = result["actions"] * Pow10(Len(s) - 1)
                      + result["life"] * Pow10(Len(tail))
                      + DigitsToInt(tail)

\* will and command taken from a string whose life places begin with 0
C30_Witness ==
  /\ Returned /\ IsCard(result) /\ has_command /\ has_will
  /\ Len(Matched) >= 5
  /\ Matched[2] = 0
  /\ result["life"] > 0
  /\ Len(TailDigits) = 2

\* C9: when the version/stat pattern is not found the card has version
\* "2.2.0", actions 0, life 0, will 0 and command null, and the rest of the
\* card is still filled in.
C9_PatternFailureDefaults ==
  (Returned /\ ~IsError(result) /\ StatsMatch(parser, text) = None)
    => /\ CardKeys \subseteq DOMAIN result
       /\ result["version"] = "2.2.0"
       /\ FieldsAre(result, 0, 0, 0, None)

C9_Witness ==
  /\ Returned /\ IsCard(result) /\ StatsMatch(parser, text) = None
  /\ \E i \in 1..Len(text) : text[i].kind = "digits"
  /\ result["version"] = "2.2.0"

ShortLine(line) == line.len > 0 /\ line.len < 50

\* C10: parse_card_universal never raises; it returns {error, page} exactly
\* when no line of the page is non-empty and shorter than 50 characters,
\* and otherwise a card named after the last such line, with the page number
\* it was given.
C10_NameOrError ==
  (Returned /\ parser = "universal")
    => /\ ~IsRaised(result)
       /\ IsError(result) <=> ~(\E i \in 1..Len(text) : ShortLine(text[i]))
       /\ IsError(result) => DOMAIN result = {"error", "page"} /\ result["page"] = page_num
       /\ ~IsError(result) =>
            /\ {"name", "page"} \subseteq DOMAIN result
            /\ result["page"] = page_num
            /\ \E i \in 1..Len(text) :
                 /\ ShortLine(text[i])
                 /\ \A j \in (i + 1)..Len(text) : ~ShortLine(text[j])
                 /\ result["name"] = text[i]

\* a long last line was skipped for the name, and a page without a short
\* line gave the error result
C10_Witness ==
  /\ Returned /\ parser = "universal"
  /\ \/ /\ IsCard(result)
        /\ Len(text) >= 2
        /\ text[Len(text)].len >= 50
        /\ result["name"] = text[Len(text) - 1]
     \/ /\ IsError(result)
        /\ Len(text) >= 1

-----------------------------------------------------------------------------
(* The faction ability of page 1 *)

Marker == <<"PULSE", "Command", "Ability">>

\* first word position at which phrase starts in the line, 0 when none
PhraseAt(phrase, line) ==
  LET ps == { i \in 1..Len(line.words) :
                /\ i + Len(phrase) - 1 <= Len(line.words)
                /\ \A j \in 1..Len(phrase) : line.words[i + j - 1] = phrase[j] }
  IN IF ps = {} THEN 0 ELSE Min(ps)

\* index of the first line holding the phrase, 0 when none
FirstLineWith(phrase, t) ==
  LET ls == { i \in 1..Len(t) : PhraseInLine(phrase, t[i]) }
  IN IF ls = {} THEN 0 ELSE Min(ls)

\* last non-blank line index before i, 0 when none
RECURSIVE PrevNonBlank(_, _)
PrevNonBlank(t, i) ==
  IF i <= 1 THEN 0
  ELSE IF t[i - 1].kind # "blank" THEN i - 1
  ELSE PrevNonBlank(t, i - 1)

NonBlank(t) == SelectSeq(t, LAMBDA l : l.kind # "blank")

\* group 2 of the match: what follows the marker, whitespace-normalized
\* (the rest of the marker's line, then every later non-blank line)
DescriptionAfter(t, i) ==
  LET w == t[i].words
      at == PhraseAt(Marker, t[i])
      rest == SubSeq(w, at + Len(Marker), Len(w))
  IN (IF rest = <<>> THEN <<>> ELSE <<rest>>)
     \o [k \in 1..Len(NonBlank(SubSeq(t, i + 1, Len(t)))) |->
           NonBlank(SubSeq(t, i + 1, Len(t)))[k].words]

\* group 1 of the match: the words before the marker on its line, or the
\* line before it when the marker opens its line
PreText(t, i) ==
  LET at == PhraseAt(Marker, t[i]) IN
  IF at > 1 THEN SubSeq(t[i].words, 1, at - 1)
  ELSE IF PrevNonBlank(t, i) = 0 THEN <<>>
  ELSE t[PrevNonBlank(t, i)].words

ExcludedWords == {"Faction", "faction", "Keyword", "keyword"}

\* not any(x in line.lower() ...) and len(line.split()) <= 6 and not
\* line.startswith('Any')
IsAbilityName(w) ==
  /\ w # <<>>
  /\ \A j \in 1..Len(w) : w[j] \notin ExcludedWords
  /\ Len(w) <= 6
  /\ w[1] # "Any"

\* variant: an ability returned whether or not the marker is found
parse_faction_ability_always(t) ==
  Some([name |-> <<"Unknown", "Ability">>, description |-> <<>>])

\* parse_faction_ability: {} without the marker
parse_faction_ability(t) ==
  LET i == FirstLineWith(Marker, t) IN
  IF i = 0 THEN None
  ELSE Some([name |-> IF IsAbilityName(PreText(t, i)) THEN PreText(t, i)
                      ELSE <<"Unknown", "Ability">>,
             description |-> DescriptionAfter(t, i)])

MobMentality == <<"Mob", "Mentality">>

\* the page-1 arm of parse_all_cards_enhanced: the ability is taken only when
\* "Mob Mentality" is directly followed by the marker
EnhancedFactionAbility(t, old) ==
  LET i == FirstLineWith(Marker, t) IN
  IF /\ PhraseIn(MobMentality, t)
     /\ i # 0
     /\ PreText(t, i) # <<>>
     /\ Len(PreText(t, i)) >= 2
     /\ SubSeq(PreText(t, i), Len(PreText(t, i)) - 1, Len(PreText(t, i))) = MobMentality
  THEN Some([name |-> MobMentality, description |-> DescriptionAfter(t, i)])
  ELSE old

-----------------------------------------------------------------------------
(* The page loop: parse_faction_cards and parse_all_cards_enhanced *)

\* variant: page 1 parsed as a card page
SkipsPage_never(n) == FALSE

\* if page_num == 1: ... continue
SkipsPage(n) == n = 1

\* the test under which the loop appends the parsed card
KeepsUniversal(card) == Has(card, "name") /\ ~Has(card, "error")
KeepsEnhanced(card) == Has(card, "name") /\ card["name"].len < NameCeiling

Keeps(p, card) == IF p = "universal" THEN KeepsUniversal(card) ELSE KeepsEnhanced(card)

\* variant: a card numbered by its place in the card list, not by its page
PageStep_counted(p, st, pg) ==
  IF SkipsPage(pg.page)
  THEN [st EXCEPT !.faction_ability =
                    IF p = "universal" THEN parse_faction_ability(pg.text)
                    ELSE EnhancedFactionAbility(pg.text, st.faction_ability)]
  ELSE LET card == ParseCard(p, pg.text, Len(st.cards) + 2) IN
       [st EXCEPT !.lpc = IF IsRaised(card) THEN "raised" ELSE st.lpc,
                  !.cards = IF ~IsRaised(card) /\ Keeps(p, card)
                            THEN Append(st.cards, card) ELSE st.cards]

\* the body of  for page in pages  as a function of the loop state
\* [cards, faction_ability, lpc] and the page
PageStep(p, st, pg) ==
  IF SkipsPage(pg.page)
  THEN [st EXCEPT !.faction_ability =
                    IF p = "universal" THEN parse_faction_ability(pg.text)
                    ELSE EnhancedFactionAbility(pg.text, st.faction_ability)]
  ELSE LET card == ParseCard(p, pg.text, pg.page) IN
       [st EXCEPT !.lpc = IF IsRaised(card) THEN "raised" ELSE st.lpc,
                  !.cards = IF ~IsRaised(card) /\ Keeps(p, card)
                            THEN Append(st.cards, card) ELSE st.cards]

\* the whole loop from an empty card list
RECURSIVE PageLoop(_, _, _, _)
PageLoop(p, st, ps, k) ==
  IF k > Len(ps) \/ st.lpc # "loop" THEN st
  ELSE PageLoop(p, PageStep(p, st, ps[k]), ps, k + 1)

ParseAll(p, ps) ==
  PageLoop(p, [cards |-> <<>>, faction_ability |-> None, lpc |-> "loop"], ps, 1)

\* one pass of  for page in pages
ProcessPage ==
  /\ lpc = "loop"
  /\ idx < Len(pages)
  /\ LET pg == pages[idx + 1] IN
     IF SkipsPage(pg.page)
     THEN /\ faction_ability' =
               IF parser = "universal" THEN parse_faction_ability(pg.text)
               ELSE EnhancedFactionAbility(pg.text, faction_ability)
          /\ cards' = cards
          /\ lpc' = lpc
     ELSE LET card == ParseCard(parser, pg.text, pg.page) IN
          /\ faction_ability' = faction_ability
          /\ lpc' = IF IsRaised(card) THEN "raised" ELSE lpc
          /\ cards' = IF ~IsRaised(card) /\ Keeps(parser, card)
                      THEN Append(cards, card) ELSE cards
  /\ idx' = idx + 1
  /\ UNCHANGED <<pages, cardVars, valVars, batchVars, buildVars, abilVars>>

ReturnCards ==
  /\ lpc = "loop"
  /\ idx = Len(pages)
  /\ lpc' = "done"
  /\ UNCHANGED <<pages, idx, cards, faction_ability, cardVars, valVars, batchVars, buildVars, abilVars>>

NameLine == Line("text", <<"Pantalone">>, <<>>, 9)
LongLine == Line("text", <<"Too", "long">>, <<>>, NameCeiling)

LoopTexts ==
  { MkText(<<"Actions", "Life", "Will", "Command">>, TRUE,
           Line("number", <<"four">>, <<30, 10>>, 4), <<2, 1, 1, 2>>, <<NameLine>>),
    <<BlankLine>>,
    <<LongLine>>,
    <<NameLine, LongLine>>,
    << Line("text", <<"Mob", "Mentality">>, <<>>, 13),
       Line("text", Marker, <<>>, 21),
       Line("text", <<"Friendly", "characters", "gain", "Will">>, <<>>, 29) >> }

PageEntries == [page : PageNums, text : LoopTexts]

\* the extracted-text file lists its pages in ascending page order
Ascending(s) == \A i \in 1..(Len(s) - 1) : s[i].page < s[i + 1].page

InitLoop ==
  /\ parser \in Parsers
  /\ text = <<>>
  /\ page_num = 0
  /\ result = <<>>
  /\ cpc = "idle"
  /\ pages \in { s \in SeqsUpTo(PageEntries, MaxPages) : Ascending(s) }
  /\ idx = 0
  /\ cards = <<>>
  /\ faction_ability = None
  /\ lpc = "loop"
  /\ ValIdle
  /\ BatchIdle
  /\ BuildIdle
  /\ AbilIdle

NextLoop == ProcessPage \/ ReturnCards

SpecLoop == InitLoop /\ [][NextLoop]_vars

InputPages == { pages[i].page : i \in 1..Len(pages) }
CardPages == { cards[i]["page"] : i \in 1..Len(cards) }

Nameable(p, t) ==
  IF p = "universal"
  THEN \E i \in 1..Len(t) : ShortLine(t[i])
  ELSE \E i \in 1..Len(t) :
         /\ ShortLine(t[i])
         /\ \A j \in (i + 1)..Len(t) : t[j].len = 0

FactionPages == { i \in 1..idx : pages[i].page = 1 }

\* C18: an entry for page 1 never gives a card, and the faction ability is
\* empty unless a consumed page-1 entry holds the "PULSE Command Ability"
\* marker, in which case its description is the text after that marker.
C18_PageOneReserved ==
  /\ \A i \in 1..Len(cards) : cards[i]["page"] # 1
  /\ faction_ability # None =>
       \E i \in FactionPages :
         LET k == FirstLineWith(Marker, pages[i].text) IN
         /\ k # 0
         /\ faction_ability[1].description = DescriptionAfter(pages[i].text, k)

\* page 1 with the marker gave the faction ability and no card, next to a
\* page that gave a card
C18_Witness ==
  /\ lpc = "done"
  /\ FactionPages # {}
  /\ faction_ability # None
  /\ cards # <<>>
  /\ Len(cards) < Len(pages)

-----------------------------------------------------------------------------
(* The validation battery: CardValidationTests *)

(* A string is a sequence of symbols; a JSON object is a function on its     *)
(* keys; a JSON list standing where an object is expected is [list |-> seq]. *)

IsList(v) == DOMAIN v = {"list"}

Get(d, k, default) == IF k \in DOMAIN d THEN d[k] ELSE default

\* not s or s.strip() == ""
IsBlankStr(s) == \A i \in 1..Len(s) : s[i] = " "

Outcome(n, r) == [n |-> n, raised |-> r]

Tests ==
  << "test_page_mapping", "test_required_fields", "test_no_duplicate_common_abilities",
     "test_common_abilities_in_reference", "test_unique_ability_names",
     "test_ability_completeness", "test_weapon_names", "test_faction_ability" >>

\* test.__name__.replace("test_", "").replace("_", " ").title()
Titles ==
  << "Page Mapping", "Required Fields", "No Duplicate Common Abilities",
     "Common Abilities In Reference", "Unique Ability Names",
     "Ability Completeness", "Weapon Names", "Faction Ability" >>

\* the test_name each check files its own errors under
TestNames ==
  << "Page Mapping", "Required Fields", "No Duplicate Common Abilities",
     "Common Abilities Reference Check", "Unique Ability Names",
     "Ability Completeness", "Weapon Names", "Faction Ability" >>

RequiredFields == {"name", "rank", "version", "actions", "life", "base_size", "ducats"}
StatFields == {"movement", "dexterity", "attack", "protection", "mind"}

\* card[field] is None: rank and command are the fields that can hold null
IsNull(f, v) == f \in {"rank", "command"} /\ v = None

\* isinstance(card[field], str) and card[field].strip() == ""
IsBlankField(f, v) ==
  \/ f = "name" /\ v.len = 0
  \/ f = "version" /\ v = ""
  \/ f = "rank" /\ v # None /\ IsBlankStr(v[1])

\* variant: a zero taken as a missing value
IsMissingValue_falsy(f, v) ==
  \/ IsNull(f, v)
  \/ IsBlankField(f, v)
  \/ f \in {"actions", "life", "base_size", "ducats"} /\ v = 0

\* card[field] is None, or a blank string
IsMissingValue(f, v) == IsNull(f, v) \/ IsBlankField(f, v)

\* test_required_fields, one card: the errors it appends
RequiredFieldErrors(card) ==
  Cardinality({ f \in RequiredFields : ~Has(card, f) \/ IsMissingValue(f, card[f]) })
  + (IF ~Has(card, "stat_block") \/ DOMAIN card["stat_block"] = {}
     THEN 1
     ELSE Cardinality({ f \in StatFields : ~Has(card["stat_block"], f) }))

\* card.get("abilities", {}): raises on .get when abilities is a list
Abilities(card) == Get(card, "abilities", NoFields)

\* test_no_duplicate_common_abilities, one card
DuplicateErrors(card) ==
  LET c == Get(Abilities(card), "common", <<>>) IN
  IF \E i, j \in 1..Len(c) : i < j /\ c[i] = c[j] THEN 1 ELSE 0

XPattern == <<"(", "X", ")">>

XPositions(r) ==
  { i \in 1..Len(r) : i + 2 <= Len(r) /\ SubSeq(r, i, i + 2) = XPattern }

StartsWith(a, pre) == Len(a) >= Len(pre) /\ SubSeq(a, 1, Len(pre)) = pre
EndsWith(a, suf) == Len(a) >= Len(suf) /\ SubSeq(a, Len(a) - Len(suf) + 1, Len(a)) = suf

\* matches_reference: exact, or prefix (payload in parentheses) suffix of a
\* reference name with exactly one (X)
matches_reference(a, refs) ==
  \/ \E k \in 1..Len(refs) : refs[k] = a
  \/ \E k \in 1..Len(refs) :
       LET r == refs[k] IN
       /\ Cardinality(XPositions(r)) = 1
       /\ LET at == Min(XPositions(r))
              prefix == SubSeq(r, 1, at - 1)
              suffix == SubSeq(r, at + 3, Len(r))
              middle == SubSeq(a, Len(prefix) + 1, Len(a) - Len(suffix))
          IN /\ StartsWith(a, prefix)
             /\ EndsWith(a, suffix)
             /\ Len(a) > Len(prefix) + Len(suffix)
             /\ middle[1] = "("
             /\ middle[Len(middle)] = ")"

\* test_common_abilities_in_reference, one card
ReferenceErrors(card, refs) ==
  LET c == Get(Abilities(card), "common", <<>>) IN
  Cardinality({ i \in 1..Len(c) : ~matches_reference(c[i], refs) })

\* the names of the unique, then the command abilities that have one
AbilityNames(card) ==
  LET u == SelectSeq(Get(Abilities(card), "unique", <<>>), LAMBDA a : Has(a, "name"))
      c == SelectSeq(Get(Abilities(card), "command", <<>>), LAMBDA a : Has(a, "name"))
  IN [i \in 1..(Len(u) + Len(c)) |-> IF i <= Len(u) THEN u[i]["name"] ELSE c[i - Len(u)]["name"]]

\* test_unique_ability_names, one card
UniqueNameErrors(card) ==
  LET ns == AbilityNames(card) IN
  Cardinality({ i \in 1..Len(ns) : \E j \in 1..(i - 1) : ns[j] = ns[i] })

MissingOrBlank(a, k) == ~Has(a, k) \/ IsBlankStr(a[k])

\* test_ability_completeness, one card
CompletenessErrors(card) ==
  LET all == Get(Abilities(card), "unique", <<>>) \o Get(Abilities(card), "command", <<>>) IN
  Cardinality({ i \in 1..Len(all) : MissingOrBlank(all[i], "name") })
  + Cardinality({ i \in 1..Len(all) : MissingOrBlank(all[i], "description") })

\* test_weapon_names, one card
WeaponNameErrors(card) ==
  LET w == Get(card, "weapons", <<>>) IN
  Cardinality({ i \in 1..Len(w) : MissingOrBlank(w[i], "name") })

\* what check c does on one card: the errors it appends, or that it raises
\* (AttributeError: a list has no .get)
CardCheck(c, card, refs) ==
  IF c = 2 THEN Outcome(RequiredFieldErrors(card), FALSE)
  ELSE IF c = 7 THEN Outcome(WeaponNameErrors(card), FALSE)
  ELSE IF IsList(Abilities(card)) THEN Outcome(0, TRUE)
  ELSE IF c = 3 THEN Outcome(DuplicateErrors(card), FALSE)
  ELSE IF c = 4 THEN Outcome(ReferenceErrors(card, refs), FALSE)
  ELSE IF c = 5 THEN Outcome(UniqueNameErrors(card), FALSE)
  ELSE Outcome(CompletenessErrors(card), FALSE)

\* for card in self.json_data.get("cards", []): the errors appended up to
\* the end of the list or to the card on which the check raises
RECURSIVE OverCards(_, _, _, _)
OverCards(c, cs, refs, acc) ==
  IF cs = <<>> THEN Outcome(acc, FALSE)
  ELSE LET r == CardCheck(c, Head(cs), refs) IN
       IF r.raised THEN Outcome(acc, TRUE)
       ELSE OverCards(c, Tail(cs), refs, acc + r.n)

\* test_page_mapping
PageMapping(jd, ed) ==
  LET extracted_pages == { ed[i].page : i \in { k \in 1..Len(ed) : ed[k].page > 1 } }
      cs == Get(jd, "cards", <<>>)
      parsed_pages == { cs[i]["page"] : i \in { k \in 1..Len(cs) : Has(cs[k], "page") } }
  IN Outcome((IF extracted_pages \ parsed_pages # {} THEN 1 ELSE 0)
             + (IF parsed_pages \ extracted_pages # {} THEN 1 ELSE 0), FALSE)

\* test_faction_ability
FactionAbilityCheck(jd) ==
  LET fa == Get(jd, "faction_ability", NoFields) IN
  IF DOMAIN fa = {} THEN Outcome(1, FALSE)
  ELSE Outcome((IF MissingOrBlank(fa, "name") THEN 1 ELSE 0)
               + (IF MissingOrBlank(fa, "description") THEN 1 ELSE 0), FALSE)

\* check number c on the loaded files: self.json_data.get raises when the
\* cards file holds a list
RunCheck(c, jd, ed, pa) ==
  IF IsList(jd) THEN Outcome(0, TRUE)
  ELSE IF c = 1 THEN PageMapping(jd, ed)
  ELSE IF c = 8 THEN FactionAbilityCheck(jd)
  ELSE OverCards(c, Get(jd, "cards", <<>>), Get(pa, "common_abilities", <<>>), 0)

Repeat(x, n) == [i \in 1..n |-> x]

\* variant: an exception of a check leaves run_all_tests
ExceptionCaught_no == FALSE

\* except Exception as e:  the handler of run_all_tests catches what a
\* check raises
ExceptionCaught == TRUE

\* variant: the error list compared with the empty list, not with its
\* length before the check
CountsAsPassed_cumulative(before, after, raised) == ~raised /\ Len(after) = 0

\* whether the iteration counts the check as passed:
\* no exception, and len(self.errors) == error_count_before
CountsAsPassed(before, after, raised) == ~raised /\ Len(after) = Len(before)

\* one iteration of  for test in tests:  on the state [errors, passed, ran, pc]
TestStep(st, jd, ed, pa) ==
  LET c == Len(st.ran) + 1
      r == RunCheck(c, jd, ed, pa)
      own == st.errors \o Repeat(TestNames[c], r.n)
  IN [ errors |-> IF r.raised /\ ExceptionCaught THEN Append(own, Titles[c]) ELSE own,
       passed |-> IF CountsAsPassed(st.errors, own, r.raised) THEN st.passed + 1 ELSE st.passed,
       ran |-> Append(st.ran, Tests[c]),
       pc |-> IF r.raised /\ ~ExceptionCaught THEN "aborted" ELSE "run" ]

\* return len(self.errors) == 0   at the end of a check that appended n
\* errors to the list it found
CheckReturns(before, n) == Len(before) + n = 0

\* total = len(tests)
total == Len(Tests)

RunTest ==
  /\ vpc = "run"
  /\ Len(ran) < total
  /\ LET st == TestStep([errors |-> errors, passed |-> passed, ran |-> ran, pc |-> vpc],
                        json_data, extracted_data, parsed_abilities)
     IN /\ errors' = st.errors
        /\ passed' = st.passed
        /\ ran' = st.ran
        /\ vpc' = st.pc
  /\ test_result' =
       LET r == RunCheck(Len(ran) + 1, json_data, extracted_data, parsed_abilities)
       IN IF r.raised THEN None ELSE Some(CheckReturns(errors, r.n))
  /\ UNCHANGED <<json_data, extracted_data, parsed_abilities, cardVars, loopVars,
                 batchVars, buildVars, abilVars>>

\* return passed, total
ReturnCounts ==
  /\ vpc = "run"
  /\ Len(ran) = total
  /\ vpc' = "done"
  /\ UNCHANGED <<json_data, extracted_data, parsed_abilities, errors, passed, ran,
                 test_result, cardVars, loopVars, batchVars, buildVars, abilVars>>

-----------------------------------------------------------------------------
(* Datasets handed to the validator *)

Engage == <<"Engage">>
CompanionX == <<"Companion", " ", "(", "X", ")">>
Companion2 == <<"Companion", " ", "(", "2", ")">>
Flying == <<"Flying">>

Reference == [common_abilities |-> <<Engage, CompanionX>>, weapon_abilities |-> <<>>]

Ability(n, d) == [name |-> n, description |-> d]

CleanAbilities ==
  [ common |-> <<Engage, Companion2>>,
    unique |-> <<Ability(<<"Cutpurse">>, <<"Steals", " ", "ducats">>)>>,
    command |-> <<Ability(<<"Rally">>, <<"Friendly", " ", "models">>) @@ ("type" :> "PULSE")>> ]

Dagger ==
  [ name |-> <<"Dagger">>, range |-> <<"0", "\"">>, evasion |-> <<"0">>, damage |-> <<"1">>,
    penetration |-> <<"0">>, abilities |-> <<>> ]

CleanStatBlock ==
  ("movement" :> 4) @@ ("dexterity" :> 3) @@ ("attack" :> 3) @@ ("protection" :> 2)
  @@ ("mind" :> 2)

CleanCard(n) ==
  ("name" :> NameLine) @@ ("page" :> n) @@ ("keywords" :> <<>>)
  @@ ("rank" :> Some(<<"Leader">>)) @@ ("version" :> "2.1.0")
  @@ Fields(2, 1, 1, Some(2)) @@ ("ducats" :> 10) @@ ("base_size" :> 30)
  @@ ("stat_block" :> CleanStatBlock) @@ ("weapons" :> <<Dagger>>)
  @@ ("abilities" :> CleanAbilities)

Without(f, k) == [x \in DOMAIN f \ {k} |-> f[x]]

Defects ==
  { "extra_page", "missing_mind", "rank_null", "dup_common", "unknown_common",
    "dup_unique_name", "empty_description", "weapon_no_name", "no_faction_ability",
    "abilities_list", "cards_file_list", "double_page", "invented_page",
    "zero_stats", "bare_card", "empty_stat_block" }

\* the first card of the dataset with the defects of D that sit on it; with
\* "zero_stats" it has the version and stats of a page whose stat pattern
\* failed, with "bare_card" it has no will, command, page and keywords
CardA(D) ==
  LET c0 == CleanCard(2)
      c1 == IF "missing_mind" \in D
            THEN [c0 EXCEPT !["stat_block"] = Without(CleanStatBlock, "mind")] ELSE c0
      ab == [CleanAbilities EXCEPT
               !.common = IF "dup_common" \in D THEN Append(@, Engage) ELSE @,
               !.unique = IF "dup_unique_name" \in D
                          THEN Append(@, Ability(<<"Rally">>, <<"Again">>)) ELSE @]
      c2 == [c1 EXCEPT !["abilities"] = ab]
      c3 == IF "weapon_no_name" \in D
            THEN [c2 EXCEPT !["weapons"] = <<Dagger, Without(Dagger, "name")>>] ELSE c2
      c4 == IF "zero_stats" \in D THEN DefaultStats @@ c3 ELSE c3
  IN IF "bare_card" \in D
     THEN [k \in DOMAIN c4 \ {"will", "command", "page", "keywords"} |-> c4[k]] ELSE c4

\* the second card; with "rank_null" it has the rank and with
\* "empty_stat_block" the stat block of a page where the parser found none
CardB(D) ==
  LET c0 == CleanCard(3)
      cr == IF "rank_null" \in D THEN [c0 EXCEPT !["rank"] = None] ELSE c0
      c1 == IF "empty_stat_block" \in D THEN [cr EXCEPT !["stat_block"] = NoFields] ELSE cr
      ab == [CleanAbilities EXCEPT
               !.common = IF "unknown_common" \in D THEN Append(@, Flying) ELSE @,
               !.unique = IF "empty_description" \in D
                          THEN <<Ability(<<"Cutpurse">>, <<>>)>> ELSE @]
  IN [c1 EXCEPT !["abilities"] = IF "abilities_list" \in D THEN [list |-> <<>>] ELSE ab]

\* the cards of the dataset: page 2 and page 3, then a second card for
\* page 3 and a card for a page the source does not have
CardList(D) ==
  <<CardA(D), CardB(D)>>
  \o (IF "double_page" \in D THEN <<CleanCard(3)>> ELSE <<>>)
  \o (IF "invented_page" \in D THEN <<CleanCard(5)>> ELSE <<>>)

CardsFile(D) ==
  IF "cards_file_list" \in D THEN [list |-> CardList(D)]
  ELSE ("faction" :> "the_guild")
       @@ (IF "no_faction_ability" \in D THEN NoFields
           ELSE ("faction_ability" :>
                   Ability(MobMentality, <<"Friendly", " ", "characters">>)))
       @@ ("cards" :> CardList(D))

ExtractedFile(D) ==
  [i \in 1..(IF "extra_page" \in D THEN 4 ELSE 3) |-> [page |-> i, text |-> <<>>]]

DefectSets == { D \in SUBSET Defects : Cardinality(D) <= MaxDefects }

InitValidate ==
  /\ CardIdle
  /\ LoopIdle
  /\ BatchIdle
  /\ BuildIdle
  /\ AbilIdle
  /\ \E D \in DefectSets :
       /\ json_data = CardsFile(D)
       /\ extracted_data = ExtractedFile(D)
  /\ parsed_abilities = Reference
  /\ errors = <<>>
  /\ passed = 0
  /\ ran = <<>>
  /\ test_result = <<>>
  /\ vpc = "run"

NextValidate == RunTest \/ ReturnCounts

SpecValidate == InitValidate /\ [][NextValidate]_vars

-----------------------------------------------------------------------------
(* Claims about run_all_tests *)

\* C3: run_all_tests calls all eight checks in the fixed order; errors or an
\* exception in one check never keep a later check from running; the total
\* returned is 8.
C3_AllChecksRun ==
  /\ vpc # "aborted"
  /\ total = 8
  /\ \E k \in 0..8 :
       ran = SubSeq(<< "test_page_mapping", "test_required_fields",
                       "test_no_duplicate_common_abilities",
                       "test_common_abilities_in_reference", "test_unique_ability_names",
                       "test_ability_completeness", "test_weapon_names",
                       "test_faction_ability" >>, 1, k)
  /\ vpc = "done" => Len(ran) = 8

\* the battery ran to its end although a check recorded errors and a later
\* check raised
C3_Witness ==
  /\ vpc = "done"
  /\ Len(ran) = 8
  /\ json_data = CardsFile({"missing_mind", "abilities_list"})
  /\ \E i, j \in 1..Len(errors) :
       /\ i < j
       /\ errors[i] = "Required Fields"
       /\ errors[j] = "Common Abilities In Reference"

\* the errors filed by check c: under its own test name, or under its title
\* by the exception handler
ErrorsOf(c) == { i \in 1..Len(errors) : errors[i] \in {TestNames[c], Titles[c]} }

\* C4: a check counts as passed exactly when no error was recorded while it
\* ran; a dataset whose only defect is one card without stat_block.mind
\* fails the Required Fields check alone: passed = total - 1.
C4_PassedCount ==
  /\ passed = Cardinality({ c \in 1..Len(ran) : ErrorsOf(c) = {} })
  /\ ( /\ vpc = "done"
       /\ json_data = CardsFile({"missing_mind"})
       /\ extracted_data = ExtractedFile({}) )
     => /\ passed = total - 1
        /\ ErrorsOf(2) # {}
        /\ \A i \in 1..Len(errors) : errors[i] = "Required Fields"

C4_Witness ==
  /\ vpc = "done"
  /\ json_data = CardsFile({"missing_mind"})
  /\ extracted_data = ExtractedFile({})
  /\ passed = 7
  /\ errors = <<"Required Fields">>

\* the source pages that are no faction page, and the cards of the file
SourcePages == { extracted_data[i].page : i \in { k \in 1..Len(extracted_data) :
                                                  extracted_data[k].page > 1 } }
FileCards == IF IsList(json_data) THEN <<>> ELSE Get(json_data, "cards", <<>>)

\* C17 (as claimed): when the Page Mapping check records no error, every
\* source page after page 1 has exactly one card and every card sits on such
\* a page.
C17_PageMappingOneToOne ==
  (Len(ran) >= 1 /\ ErrorsOf(1) = {}) =>
    /\ \A p \in SourcePages :
         Cardinality({ i \in 1..Len(FileCards) :
                         Has(FileCards[i], "page") /\ FileCards[i]["page"] = p }) = 1
    /\ \A i \in 1..Len(FileCards) :
         Has(FileCards[i], "page") /\ FileCards[i]["page"] \in SourcePages

\* a value of a card that is absent, null or a blank string (the numbers of
\* a card are never null)
Missing(card, f) ==
  \/ f \notin DOMAIN card
  \/ f = "name" /\ card[f].len = 0
  \/ f = "version" /\ card[f] = ""
  \/ f = "rank" /\ (card[f] = None \/ IsBlankStr(card[f][1]))

\* a card the Required Fields check has nothing to say about
Complete(card) ==
  /\ \A f \in {"name", "rank", "version", "actions", "life", "base_size", "ducats"} :
       ~Missing(card, f)
  /\ "stat_block" \in DOMAIN card
  /\ {"movement", "dexterity", "attack", "protection", "mind"} \subseteq DOMAIN card["stat_block"]

\* C29: the Required Fields check records an error exactly when some card
\* lacks one of its seven fields or a stat (absent, null or blank): a card
\* with actions 0 and life 0 passes, a card with rank null or with an empty
\* stat_block fails, and will, command, page and keywords are not required.
C29_RequiredFieldsMissingOnly ==
  (Len(ran) >= 2 /\ ~IsList(json_data)) =>
    /\ ErrorsOf(2) = {} <=> \A i \in 1..Len(FileCards) : Complete(FileCards[i])
    /\ json_data \in {CardsFile({"zero_stats"}), CardsFile({"bare_card"}),
                      CardsFile({"zero_stats", "bare_card"})} => ErrorsOf(2) = {}
    /\ json_data \in {CardsFile({"rank_null"}), CardsFile({"empty_stat_block"})}
         => ErrorsOf(2) # {}

\* the check has run on a card with actions 0 and life 0 and without will,
\* command, page and keywords, and recorded nothing
C29_Witness ==
  /\ Len(ran) >= 2
  /\ json_data = CardsFile({"zero_stats", "bare_card"})
  /\ FileCards[1]["actions"] = 0
  /\ FileCards[1]["life"] = 0
  /\ DOMAIN FileCards[1] \cap {"will", "command", "page", "keywords"} = {}
  /\ ErrorsOf(2) = {}

\* C28 (as claimed): a check returns True exactly when the check itself
\* found no violation, whatever the checks before it recorded.
C28_CheckReturnsOwnVerdict ==
  (ran # <<>> /\ test_result # None)
    => (test_result[1]
          <=> RunCheck(Len(ran), json_data, extracted_data, parsed_abilities).n = 0)

-----------------------------------------------------------------------------
(* The batch runner: test_all_factions.main *)

\* run_all_tests from a fresh validator: the state after the last check
RECURSIVE RunTests(_, _, _, _)
RunTests(st, jd, ed, pa) ==
  IF st.pc # "run" \/ Len(st.ran) = total THEN st
  ELSE RunTests(TestStep(st, jd, ed, pa), jd, ed, pa)

run_all_tests(jd, ed, pa) ==
  RunTests([errors |-> <<>>, passed |-> 0, ran |-> <<>>, pc |-> "run"], jd, ed, pa)

\* a faction found by find_faction_files:
\*   loads : its cards file and its extracted-text file parse as JSON
\*   D     : the defects of its dataset
\*   fault : an exception escapes the validator's calls (reporting fails)
FactionFiles ==
  [ loads : BOOLEAN,
    D : {{}, {"missing_mind"}, {"cards_file_list"}},
    fault : BOOLEAN ]

\* _load_json of the three files: any failure ends the process, sys.exit(1)
LoadsAll(f, af) == f.loads /\ af = "ok"

\* what the body of the faction loop does with faction f:
\*   "exit"   SystemExit from _load_json leaves main
\*   "except" the except Exception arm runs
\*   "tested" run_all_tests returned
FactionOutcome(f, af) ==
  IF ~LoadsAll(f, af) THEN "exit"
  ELSE IF f.fault THEN "except"
  ELSE "tested"

FactionCounts(f) == run_all_tests(CardsFile(f.D), ExtractedFile(f.D), Reference)

\* if not os.path.exists(parsed_abilities_file): exit(1); then
\* find_faction_files(); if not faction_pairs: exit(1)
StartBatch ==
  /\ bpc = "start"
  /\ bpc' = IF abilities_file = "missing" THEN "exit_no_reference"
            ELSE IF faction_pairs = <<>> THEN "exit_no_factions"
            ELSE "loop"
  /\ UNCHANGED <<abilities_file, faction_pairs, fi, total_passed, total_tests,
                 failed_factions, visited, cardVars, loopVars, valVars, buildVars, abilVars>>

\* one pass of  for json_file, extracted_file, faction_name in faction_pairs
TestFaction ==
  /\ bpc = "loop"
  /\ fi < Len(faction_pairs)
  /\ LET f == faction_pairs[fi + 1]
         o == FactionOutcome(f, abilities_file)
         r == FactionCounts(f)
     IN /\ bpc' = IF o = "exit" THEN "exit_load_error" ELSE "loop"
        /\ fi' = IF o = "exit" THEN fi ELSE fi + 1
        /\ visited' = IF o = "exit" THEN visited ELSE Append(visited, fi + 1)
        /\ total_passed' = IF o = "tested" THEN total_passed + r.passed ELSE total_passed
        /\ total_tests' = IF o = "tested" THEN total_tests + total
                          ELSE IF o = "except" THEN total_tests + 8
                          ELSE total_tests
        /\ failed_factions' =
             IF o = "except" \/ (o = "tested" /\ r.passed < total)
             THEN Append(failed_factions, fi + 1) ELSE failed_factions
  /\ UNCHANGED <<abilities_file, faction_pairs, cardVars, loopVars, valVars, buildVars, abilVars>>

\* the summary: sys.exit(1) when a faction failed
Summary ==
  /\ bpc = "loop"
  /\ fi = Len(faction_pairs)
  /\ bpc' = IF failed_factions # <<>> THEN "exit_failures" ELSE "returned"
  /\ UNCHANGED <<abilities_file, faction_pairs, fi, total_passed, total_tests,
                 failed_factions, visited, cardVars, loopVars, valVars, buildVars, abilVars>>

InitBatch ==
  /\ CardIdle
  /\ LoopIdle
  /\ ValIdle
  /\ BuildIdle
  /\ AbilIdle
  /\ abilities_file \in {"ok", "missing", "unreadable"}
  /\ faction_pairs \in SeqsUpTo(FactionFiles, MaxFactions)
  /\ fi = 0
  /\ total_passed = 0
  /\ total_tests = 0
  /\ failed_factions = <<>>
  /\ visited = <<>>
  /\ bpc = "start"

NextBatch == StartBatch \/ TestFaction \/ Summary

SpecBatch == InitBatch /\ [][NextBatch]_vars

BatchEnded ==
  bpc \in {"exit_no_reference", "exit_no_factions", "exit_load_error", "exit_failures",
           "returned"}

\* C5 (as claimed): every discovered faction is gone through; a faction whose
\* checks fail, whose files cannot be loaded or whose validation raises never
\* keeps the remaining factions from being validated.
C5_EveryFactionValidated ==
  (BatchEnded /\ bpc # "exit_no_reference")
    => visited = [i \in 1..Len(faction_pairs) |-> i]

\* C20 (as claimed): without parsed_abilities.json the run does not fail:
\* the batch runner still goes through every discovered faction and ends
\* with its summary, never with the exit taken for the missing file.
C20_AbsentReferenceCompletes ==
  (abilities_file = "missing" /\ BatchEnded)
    => /\ bpc \in {"returned", "exit_failures"}
       /\ visited = [i \in 1..Len(faction_pairs) |-> i]

-----------------------------------------------------------------------------
(* The build script: build_and_deploy.main *)

\* spec_from_file_location("script_module", script_name): the name the
\* script's module body sees as __name__
ModuleName == "script_module"

\* if __name__ == "__main__": main()   at the foot of parse_cards.py and of
\* test_all_factions.py
RunsMain == ModuleName = "__main__"

\* how test_all_factions.main ends on the files under output/
BatchEnd(fs, af) ==
  IF af = "missing" THEN "exit_no_reference"
  ELSE IF fs = <<>> THEN "exit_no_factions"
  ELSE IF \E i \in 1..Len(fs) : FactionOutcome(fs[i], af) = "exit" THEN "exit_load_error"
  ELSE IF \E i \in 1..Len(fs) :
            \/ FactionOutcome(fs[i], af) = "except"
            \/ FactionCounts(fs[i]).passed < total
       THEN "exit_failures"
  ELSE "returned"

Envs ==
  [ dirs_ok : BOOLEAN,          \* pdfs, extracted_text, output, ../webapp exist
    scripts_ok : BOOLEAN,       \* parse_cards.py, test_all_factions.py, extracted files
    imports_ok : BOOLEAN,       \* the scripts' import statements succeed
    copy_ok : BOOLEAN ]         \* shutil.copy2 and the index write succeed

Fail == "exit_failed"           \* print_summary(False); sys.exit(1)

EnsureDirectories ==
  /\ step = "start"
  /\ step' = IF env.dirs_ok THEN "check_files" ELSE Fail
  /\ UNCHANGED <<env, parsing_ran, validation_ran, deployed,
                 cardVars, loopVars, valVars, batchVars, abilVars>>

CheckRequiredFiles ==
  /\ step = "check_files"
  /\ step' = IF env.scripts_ok /\ abilities_file # "missing" THEN "parse" ELSE Fail
  /\ UNCHANGED <<env, parsing_ran, validation_ran, deployed,
                 cardVars, loopVars, valVars, batchVars, abilVars>>

\* parse_cards(): run_script_directly("parse_cards.py", ...)
ParseCardsStep ==
  /\ step = "parse"
  /\ IF ~env.imports_ok
     THEN step' = Fail /\ parsing_ran' = parsing_ran
     ELSE step' = "validate" /\ parsing_ran' = RunsMain
  /\ UNCHANGED <<env, validation_ran, deployed, cardVars, loopVars, valVars, batchVars, abilVars>>

\* validate_cards(): run_script_directly("test_all_factions.py", ...); a
\* sys.exit inside the script is no Exception and leaves the build
ValidateCardsStep ==
  /\ step = "validate"
  /\ IF ~env.imports_ok
     THEN step' = Fail /\ validation_ran' = validation_ran
     ELSE /\ validation_ran' = RunsMain
          /\ step' = IF RunsMain /\ BatchEnd(faction_pairs, abilities_file) # "returned"
                     THEN "exit_system_exit" ELSE "deploy"
  /\ UNCHANGED <<env, parsing_ran, deployed, cardVars, loopVars, valVars, batchVars, abilVars>>

\* deploy_to_webapp(): copy every output/*_cards.json to ../webapp/cards
DeployToWebapp ==
  /\ step = "deploy"
  /\ IF faction_pairs = <<>> \/ ~env.copy_ok
     THEN step' = Fail /\ deployed' = deployed
     ELSE step' = "summary" /\ deployed' = faction_pairs
  /\ UNCHANGED <<env, parsing_ran, validation_ran, cardVars, loopVars, valVars, batchVars, abilVars>>

\* print_summary(True)
PrintSummary ==
  /\ step = "summary"
  /\ step' = "done"
  /\ UNCHANGED <<env, parsing_ran, validation_ran, deployed,
                 cardVars, loopVars, valVars, batchVars, abilVars>>

InitBuild ==
  /\ CardIdle
  /\ LoopIdle
  /\ ValIdle
  /\ AbilIdle
  /\ abilities_file \in {"ok", "missing", "unreadable"}
  /\ faction_pairs \in SeqsUpTo(FactionFiles, MaxFactions)
  /\ fi = 0
  /\ total_passed = 0
  /\ total_tests = 0
  /\ failed_factions = <<>>
  /\ visited = <<>>
  /\ bpc = "idle"
  /\ env \in Envs
  /\ step = "start"
  /\ parsing_ran = FALSE
  /\ validation_ran = FALSE
  /\ deployed = <<>>

NextBuild ==
  \/ EnsureDirectories
  \/ CheckRequiredFiles
  \/ ParseCardsStep
  \/ ValidateCardsStep
  \/ DeployToWebapp
  \/ PrintSummary

SpecBuild == InitBuild /\ [][NextBuild]_vars

\* C2 (as claimed): the card files are copied to the webapp only after the
\* validation battery ran on them and every faction passed every check.
C2_DeployOnlyValidated ==
  deployed # <<>> =>
    /\ validation_ran
    /\ BatchEnd(deployed, abilities_file) = "returned"

-----------------------------------------------------------------------------
(* Ability names: separate_concatenated_abilities                            *)

(* A string is a sequence of symbols. A symbol is a capitalised word, a      *)
(* lower-case word, a digit, a blank, a line break, a full stop or a         *)
(* parenthesis; "PULSE" and "AURA" stand for the headers "PULSE Command      *)
(* Ability" and "AURA Command Ability". No symbol is a prefix or a suffix of *)
(* another, so a search over symbols finds what the search over characters   *)
(* finds.                                                                    *)

Markers == {"PULSE", "AURA"}
UpperWords ==
  {"Engage", "Flying", "Expert", "Grappler", "Companion", "Sly", "X", "Cutpurse", "Rally",
   "Steals"} \cup Markers
LowerWords == {"x", "friendly", "ducats"}

\* str.isalpha() and str.isupper() of the first character of a symbol
IsAlpha(c) == c \in UpperWords \cup LowerWords
IsUpper(c) == c \in UpperWords

\* the characters of a symbol
SymLen(c) ==
  CASE c \in {"Engage", "Flying", "Expert", "Steals", "ducats"} -> 6
    [] c \in {"Grappler", "Cutpurse", "friendly"} -> 8
    [] c = "Companion" -> 9
    [] c = "Sly" -> 3
    [] c = "Rally" -> 5
    [] c = "PULSE" -> 21
    [] c = "AURA" -> 20
    [] OTHER -> 1

\* len(s)
RECURSIVE CharLen(_)
CharLen(s) == IF s = <<>> THEN 0 ELSE SymLen(Head(s)) + CharLen(Tail(s))

\* s.replace(pat, '')
RECURSIVE RemoveAll(_, _)
RemoveAll(s, pat) ==
  IF Len(s) < Len(pat) \/ pat = <<>> THEN s
  ELSE IF StartsWith(s, pat) THEN RemoveAll(SubSeq(s, Len(pat) + 1, Len(s)), pat)
  ELSE <<Head(s)>> \o RemoveAll(Tail(s), pat)

\* '(X)' in known_ability
HasX(known_ability) == XPositions(known_ability) # {}

\* base_name = known_ability.replace('(X)', '').strip()
BaseName(known_ability) == Strip(RemoveAll(known_ability, XPattern))

\* sorted(known_abilities, key=len, reverse=True): a stable sort, so entries
\* of equal length keep the order of the list
RECURSIVE SortedByLen(_)
SortedByLen(known) ==
  IF known = <<>> THEN <<>>
  ELSE LET n == Len(known)
           x == known[n]
           rest == SortedByLen(SubSeq(known, 1, n - 1))
           k == Cardinality({ i \in 1..Len(rest) : CharLen(rest[i]) >= CharLen(x) })
       IN SubSeq(rest, 1, k) \o <<x>> \o SubSeq(rest, k + 1, Len(rest))

\* the text of pre found at position i of r
FoundAt(r, i, pre) ==
  i + Len(pre) - 1 <= Len(r) /\ SubSeq(r, i, i + Len(pre) - 1) = pre

Match(at, len) == <<[at |-> at, len |-> len]>>

\* re.search(f"{re.escape(base_name)} \\(\\d+\\)", r): the leftmost match
NumberMatch(base_name, r) ==
  LET open == base_name \o <<" ", "(">>
      ok(i) == /\ FoundAt(r, i, open)
               /\ LET p == i + Len(open)
                      d == DigitRun(r, p)
                  IN d >= 1 /\ p + d <= Len(r) /\ r[p + d] = ")"
      starts == { i \in 1..Len(r) : ok(i) }
  IN IF starts = {} THEN None
     ELSE LET i == Min(starts) IN Match(i, Len(open) + DigitRun(r, i + Len(open)) + 1)

\* re.search(f"{re.escape(base_name)} \\([^)]+\\)", r): the leftmost match
ParenMatch(base_name, r) ==
  LET open == base_name \o <<" ", "(">>
      close(i) == { q \in (i + Len(open))..Len(r) : r[q] = ")" }
      ok(i) == /\ FoundAt(r, i, open)
               /\ close(i) # {}
               /\ Min(close(i)) > i + Len(open)
      starts == { i \in 1..Len(r) : ok(i) }
  IN IF starts = {} THEN None
     ELSE LET i == Min(starts) IN Match(i, Min(close(i)) - i + 1)

\* separated.append(match.group(0));
\* remaining_text = remaining_text.replace(match.group(0), '', 1).strip()
TakeMatch(st, m) ==
  LET r == st.remaining_text
      at == m[1].at
      n == m[1].len
  IN [ separated |-> Append(st.separated, SubSeq(r, at, at + n - 1)),
       remaining_text |-> Strip(SubSeq(r, 1, at - 1) \o SubSeq(r, at + n, Len(r))) ]

\* the base name at the beginning, followed by nothing, by a character that
\* is no letter, or by a capital
BaseAtStart(base_name, r) ==
  /\ StartsWith(r, base_name)
  /\ LET next_pos == Len(base_name) + 1 IN
     \/ next_pos > Len(r)
     \/ ~IsAlpha(r[next_pos])
     \/ IsUpper(r[next_pos])

\* the body of  for known_ability in sorted_abilities
SegmentStep(st, known_ability) ==
  LET base_name == BaseName(known_ability)
      r == st.remaining_text
      number == NumberMatch(base_name, r)
      parens == IF HasX(known_ability) THEN ParenMatch(base_name, r) ELSE None
  IN IF number # None THEN TakeMatch(st, number)
     ELSE IF parens # None THEN TakeMatch(st, parens)
     ELSE IF BaseAtStart(base_name, r)
     THEN [ separated |-> Append(st.separated, base_name),
            remaining_text |-> Strip(SubSeq(r, Len(base_name) + 1, Len(r))) ]
     ELSE st

RECURSIVE SegmentLoop(_, _, _)
SegmentLoop(st, sorted_abilities, k) ==
  IF k > Len(sorted_abilities) THEN st
  ELSE SegmentLoop(SegmentStep(st, sorted_abilities[k]), sorted_abilities, k + 1)

separate_concatenated_abilities(it, known) ==
  LET st == SegmentLoop([separated |-> <<>>, remaining_text |-> it], SortedByLen(known), 1)
      all == IF st.remaining_text # <<>>
             THEN Append(st.separated, st.remaining_text)
             ELSE st.separated
  IN IF all # <<>> THEN all ELSE <<it>>

(* Blobs and reference lists *)

MaxFrags == 3
MaxRefs == 2

ExpertGrapplerX == <<"Expert", " ", "Grappler", " ", "(", "X", ")">>
ExpertGrappler2 == <<"Expert", " ", "Grappler", " ", "(", "2", ")">>
EndOfDays == <<" ", "(", " ", "Sly", " ", ")">>

SlyMark == <<"Sly", " ", "X">>

RefNames == {Engage, Flying, CompanionX, ExpertGrapplerX, <<"Sly", "(", "X", ")">>, SlyMark}

\* reference lists without repeated entries
RefLists ==
  { s \in SeqsUpTo(RefNames, MaxRefs) : \A i, j \in 1..Len(s) : s[i] = s[j] => i = j }

Fragments ==
  { Engage, Flying, <<"Expert", " ", "Grappler">>, <<"Companion">>,
    <<" ", "(", "2", ")">>, EndOfDays, <<"x">>, SlyMark }

RECURSIVE Concat(_)
Concat(ss) == IF ss = <<>> THEN <<>> ELSE Head(ss) \o Concat(Tail(ss))

Blobs == { Concat(fs) : fs \in SeqsUpTo(Fragments, MaxFrags) }

CallSeparate ==
  /\ apc = "call"
  /\ ability_name = <<>>
  /\ separated' = separate_concatenated_abilities(item, known_abilities)
  /\ apc' = "done"
  /\ UNCHANGED <<item, ability_name, known_abilities, matched, reference_file, loaded,
                 cardVars, loopVars, valVars, batchVars, buildVars>>

InitSegment ==
  /\ CardIdle
  /\ LoopIdle
  /\ ValIdle
  /\ BatchIdle
  /\ BuildIdle
  /\ item \in Blobs
  /\ ability_name = <<>>
  /\ known_abilities \in RefLists
  /\ separated = <<>>
  /\ matched = <<>>
  /\ reference_file = <<>>
  /\ loaded = <<>>
  /\ apc = "call"

NextSegment == CallSeparate

SpecSegment == InitSegment /\ [][NextSegment]_vars

NoBlanks(s) == SelectSeq(s, LAMBDA c : c # " ")

\* C11 (as claimed): the blob "EngageExpert Grappler (2)" against the
\* reference ["Engage", "Expert Grappler (X)"] is cut into "Engage" then
\* "Expert Grappler (2)", and in general the fragments come in the order in
\* which they stand in the blob: joined, they give the blob back (blanks aside).
C11_SegmentsInBlobOrder ==
  apc = "done" /\ ability_name = <<>> =>
    /\ (item = Engage \o ExpertGrappler2 /\ known_abilities = <<Engage, ExpertGrapplerX>>)
         => separated = <<Engage, ExpertGrappler2>>
    /\ NoBlanks(Concat(separated)) = NoBlanks(item)

Perms(s) ==
  { t \in [1..Len(s) -> { s[i] : i \in 1..Len(s) }] :
      \A i \in 1..Len(s) : \E j \in 1..Len(s) : t[j] = s[i] }

\* C12 (as claimed): the fragments do not depend on the order of the
\* reference list: every list holding the same entries gives the same result.
C12_ReferenceOrderIndependent ==
  apc = "done" /\ ability_name = <<>> =>
    \A other \in Perms(known_abilities) :
      separate_concatenated_abilities(item, other) = separated

\* C23 (as claimed): a blob that starts with a known name A is not cut inside
\* A by a shorter known name B that A begins with: some fragment begins with A.
C23_LongerNameWins ==
  apc = "done" /\ ability_name = <<>> =>
    \A a, b \in 1..Len(known_abilities) :
      LET A == BaseName(known_abilities[a])
          B == BaseName(known_abilities[b])
      IN (StartsWith(item, A) /\ Len(B) < Len(A) /\ StartsWith(A, B))
           => \E f \in 1..Len(separated) : StartsWith(separated[f], A)

-----------------------------------------------------------------------------
(* Ability names: normalize_ability_name *)

\* base occurs in the text:  base in ability_text
Contains(candidate, base) == \E i \in 1..(Len(candidate) + 1) : FoundAt(candidate, i, base)

\* re.match(f'^{re.escape(known.replace("(X)", "")).strip()}\\s*\\([^)]+\\)$', candidate)
\* re.escape writes a blank as backslash-blank, and strip() then takes the
\* blank of a trailing one away: the backslash left behind joins the "\s*"
\* that follows into an escaped backslash and "s*", so a name with a blank
\* before its (X) gives a pattern that asks for a backslash in the text.
ParametricMatch(candidate, known_ability) ==
  LET raw == RemoveAll(known_ability, XPattern)
      n == Len(raw)
      solid == { p \in (n + 1)..Len(candidate) : ~IsSpace(candidate[p]) }
  IN /\ ~(n > 0 /\ raw[n] = " ")
     /\ StartsWith(candidate, raw)
     /\ solid # {}
     /\ LET p == Min(solid) IN
        /\ candidate[p] = "("
        /\ candidate[Len(candidate)] = ")"
        /\ Len(candidate) - p >= 2
        /\ \A q \in (p + 1)..(Len(candidate) - 1) : candidate[q] # ")"

\* known_ability.replace('(X)', '').replace('(', '').replace(')', '').strip()
FuzzyBase(known_ability) ==
  Strip(RemoveAll(RemoveAll(RemoveAll(known_ability, XPattern), <<"(">>), <<")">>))

\* variant: no match by containment
FuzzyMatch_never(candidate, known_ability) == FALSE

\* if ability_text == base_name: return base_name
\* if base_name in ability_text: return ability_text
FuzzyMatch(candidate, known_ability) ==
  candidate = FuzzyBase(known_ability) \/ Contains(candidate, FuzzyBase(known_ability))

normalize_ability_name(name, known) ==
  LET ability_text == Strip(name) IN
  IF \E k \in 1..Len(known) : known[k] = ability_text THEN ability_text
  ELSE IF \E k \in 1..Len(known) :
            HasX(known[k]) /\ ParametricMatch(ability_text, known[k])
  THEN ability_text
  ELSE IF \E k \in 1..Len(known) : FuzzyMatch(ability_text, known[k]) THEN ability_text
  ELSE <<>>

SlyX == <<"Sly", "(", "X", ")">>
CompanionEndOfDays == <<"Companion">> \o EndOfDays

MatchRefNames == {Engage, CompanionX, SlyX}

MatchRefLists ==
  { s \in SeqsUpTo(MatchRefNames, MaxRefs) : \A i, j \in 1..Len(s) : s[i] = s[j] => i = j }

Candidates ==
  { Concat(fs) : fs \in SeqsUpTo({ <<" ">>, Engage, <<"Companion">>, <<"Sly">>,
                                   <<"(", "2", ")">>, EndOfDays }, MaxFrags) }

CallNormalize ==
  /\ apc = "call"
  /\ matched' = normalize_ability_name(ability_name, known_abilities)
  /\ apc' = "done"
  /\ UNCHANGED <<item, ability_name, known_abilities, separated, reference_file, loaded,
                 cardVars, loopVars, valVars, batchVars, buildVars>>

InitMatch ==
  /\ CardIdle
  /\ LoopIdle
  /\ ValIdle
  /\ BatchIdle
  /\ BuildIdle
  /\ item = <<>>
  /\ ability_name \in Candidates
  /\ known_abilities \in MatchRefLists
  /\ separated = <<>>
  /\ matched = <<>>
  /\ reference_file = <<>>
  /\ loaded = <<>>
  /\ apc = "call"

NextMatch == CallNormalize

SpecMatch == InitMatch /\ [][NextMatch]_vars

\* a reference name with its (X) taken away, followed by a payload in
\* parentheses
PayloadAfterBase(candidate, known_ability) ==
  /\ HasX(known_ability)
  /\ LET base == BaseName(known_ability)
         rest == Strip(SubSeq(candidate, Len(base) + 1, Len(candidate)))
     IN /\ StartsWith(candidate, base)
        /\ Len(rest) >= 3
        /\ rest[1] = "("
        /\ rest[Len(rest)] = ")"
        /\ \A q \in 2..(Len(rest) - 1) : rest[q] # ")"

\* C13: normalize_ability_name returns the stripped candidate when it is a
\* reference name, a parametric base name followed by a payload in
\* parentheses, or a text holding a reference base name; otherwise it returns
\* the empty string. The result is always empty or the stripped candidate.
C13_MatchOrEmpty ==
  apc = "done" =>
    LET candidate == Strip(ability_name)
        hit == \E k \in 1..Len(known_abilities) :
                 \/ known_abilities[k] = candidate
                 \/ PayloadAfterBase(candidate, known_abilities[k])
                 \/ Contains(candidate, FuzzyBase(known_abilities[k]))
    IN /\ matched \in {<<>>, candidate}
       /\ hit => matched = candidate
       /\ ~hit => matched = <<>>

\* "Companion ( End of Days )" against a reference holding "Companion (X)"
C13_Witness ==
  /\ apc = "done"
  /\ ability_name = CompanionEndOfDays
  /\ \E k \in 1..Len(known_abilities) : known_abilities[k] = CompanionX
  /\ matched = CompanionEndOfDays

\* C14 (as claimed): a name the matcher returns passes the validator's
\* reference rule for the same reference.
C14_MatchedNamesPassValidator ==
  (apc = "done" /\ matched # <<>>) => matches_reference(matched, known_abilities)

-----------------------------------------------------------------------------
(* One call of parse_weapons *)

MaxTokens == 4

WeaponHeader ==
  Line("weapon_header", <<"Weapon", "Range", "Evasion", "Damage", "Penetration", "Abilities">>,
       <<>>, NameCeiling - 1)
StatsHeader ==
  Line("stats_header", <<"MOVEMENT", "DEXTERITY", "ATTACK", "PROTECTION", "MIND">>, <<>>,
       NameCeiling - 1)
KeywordsLine == Line("keywords", <<"Keywords">>, <<>>, 8)

RowLine(w) == Line("row", w, <<>>, Len(w))

RowNames == { <<>>, <<"Needle">>, <<"Poisoned", " ", "Needle">> }
RowTokens == { <<"0", Inch>>, <<"-">>, <<"-", "1">>, <<"1">>, <<"+", "1">> }

RECURSIVE Spaced(_)
Spaced(toks) == IF toks = <<>> THEN <<>> ELSE <<" ">> \o Head(toks) \o Spaced(Tail(toks))

Rows ==
  { nm \o Spaced(toks) \o tl :
      nm \in RowNames, toks \in SeqsUpTo(RowTokens, MaxTokens),
      tl \in {<<>>, <<" ", "Poisoned">>} }

PoisonedNeedleRow ==
  <<"Poisoned", " ", "Needle", " ", "0", Inch, " ", "-", " ", "-", " ", "-", "1", " ",
    "Poisoned">>

WeaponTexts ==
  { <<WeaponHeader, RowLine(r), StatsHeader>> : r \in Rows }
  \cup { <<WeaponHeader, RowLine(PoisonedNeedleRow), KeywordsLine>>,
         <<WeaponHeader, BlankLine, RowLine(PoisonedNeedleRow),
           RowLine(<<"Needle", " ", "Poisoned">>), RowLine(<<"Needle", " ", "1">>),
           StatsHeader>>,
         <<RowLine(PoisonedNeedleRow), StatsHeader>>,
         <<WeaponHeader, RowLine(PoisonedNeedleRow)>>,
         <<StatsHeader, WeaponHeader, RowLine(PoisonedNeedleRow)>> }

CallParseWeapons ==
  /\ cpc = "call"
  /\ result' = ("weapons" :> parse_weapons(text))
  /\ cpc' = "returned"
  /\ UNCHANGED <<parser, text, page_num, loopVars, valVars, batchVars, buildVars, abilVars>>

InitWeapons ==
  /\ LoopIdle
  /\ ValIdle
  /\ BatchIdle
  /\ BuildIdle
  /\ AbilIdle
  /\ parser = "universal"
  /\ text \in WeaponTexts
  /\ page_num = 0
  /\ result = <<>>
  /\ cpc = "call"

NextWeapons == CallParseWeapons

SpecWeapons == InitWeapons /\ [][NextWeapons]_vars

\* the table rows of the page, when the table is found
TableRows == IF WeaponSection(text) = None THEN <<>> ELSE WeaponSection(text)[1]

\* the value a weapon shows for a column: what stands in the row, "0" for a
\* dash or nothing
Shown(g, zero) == IF g = None \/ g = Some(Dash) THEN zero ELSE g[1]

\* C15: every weapon parse_weapons emits has a name, and none of its range,
\* evasion, damage, penetration is a dash: a dash or a missing value is shown
\* as "0" (range 0"). The row  Poisoned Needle 0" - - -1 Poisoned  gives
\* range 0", evasion 0, damage 0, penetration -1, abilities Poisoned.
C15_NoDashInWeapon ==
  Returned =>
    /\ \A i \in 1..Len(result["weapons"]) :
         LET w == result["weapons"][i] IN
         /\ w.name # <<>>
         /\ Dash \notin {w.range, w.evasion, w.damage, w.penetration}
    /\ Len(TableRows) = 1 /\ result["weapons"] # <<>> =>
         LET w == result["weapons"][1]
             m == WeaponMatch(Strip(TableRows[1].words))[1]
         IN /\ w.range = Shown(m.range_val, <<"0", Inch>>)
            /\ w.evasion = Shown(m.evasion, <<"0">>)
            /\ w.damage = Shown(m.damage, <<"0">>)
            /\ w.penetration = Shown(m.penetration, <<"0">>)
    /\ TableRows = <<RowLine(PoisonedNeedleRow)>> =>
         result["weapons"] =
           << [ name |-> <<"Poisoned", " ", "Needle">>, range |-> <<"0", Inch>>,
                evasion |-> <<"0">>, damage |-> <<"0">>, penetration |-> <<"-", "1">>,
                abilities |-> <<"Poisoned">> ] >>

\* the Poisoned Needle row was parsed: its dashes show as "0"
C15_Witness ==
  /\ Returned
  /\ TableRows = <<RowLine(PoisonedNeedleRow)>>
  /\ Len(result["weapons"]) = 1
  /\ result["weapons"][1].evasion = <<"0">>
  /\ result["weapons"][1].penetration = <<"-", "1">>

\* the column holds a value that is no dash
PresentNotDash(g) == g # None /\ g # Some(Dash)

\* C16 (as claimed): a table row becomes a weapon only if its range, evasion
\* or damage holds a value that is no dash; a row whose three columns are
\* each missing or a dash is dropped.
C16_WeaponNeedsValue ==
  (Returned /\ Len(TableRows) = 1 /\ result["weapons"] # <<>>) =>
    LET m == WeaponMatch(Strip(TableRows[1].words))[1] IN
    \/ PresentNotDash(m.range_val)
    \/ PresentNotDash(m.evasion)
    \/ PresentNotDash(m.damage)

-----------------------------------------------------------------------------
(* The page loop on the same pages in another order *)

CardSet(cs) == { cs[i] : i \in 1..Len(cs) }

-----------------------------------------------------------------------------
(* The abilities of a page: enhanced_parse_abilities of both parsers         *)

(* The page text is a string of symbols. Besides the symbols of an ability   *)
(* name it holds "MIND" for the stat header with its line of five numbers,   *)
(* "Keywords" for the keyword line, "Character Abilities" for the section    *)
(* header, "2.1.0" for the version line with what follows it, and the        *)
(* bullet.                                                                   *)

MindHeader == "MIND"
KeywordsAnchor == "Keywords"
AbilitiesAnchor == "Character Abilities"
VersionSym == "2.1.0"
\* the bullet character U+2022
Bullet == "*"

\* [A-Z][a-z]: a symbol that starts with a capital and goes on in lower case
CapitalLower(c) ==
  c \in (UpperWords \ (Markers \cup {"X"})) \cup {KeywordsAnchor, AbilitiesAnchor}

\* [A-Z]
Capital(c) == c \in UpperWords \cup {KeywordsAnchor, AbilitiesAnchor, MindHeader}

\* [a-z] as the last character of a symbol
EndsLower(c) ==
  c \in (UpperWords \ (Markers \cup {"X"})) \cup LowerWords \cup {KeywordsAnchor, AbilitiesAnchor}

\* the least position from p on that holds no whitespace
SkipSpace(t, p) ==
  LET solid == { q \in p..Len(t) : ~IsSpace(t[q]) } IN
  IF solid = {} THEN Len(t) + 1 ELSE Min(solid)

\* the first position of symbol c in t, 0 when there is none
First(t, S) ==
  LET at == { i \in 1..Len(t) : t[i] \in S } IN IF at = {} THEN 0 ELSE Min(at)

\* normalize_description: re.sub(r'\s+', ' ', description).strip()
RECURSIVE Collapse(_)
Collapse(t) ==
  IF t = <<>> THEN <<>>
  ELSE IF IsSpace(t[1]) THEN <<" ">> \o Collapse(SubSeq(t, SkipSpace(t, 1), Len(t)))
  ELSE <<t[1]>> \o Collapse(Tail(t))

normalize_description(description) == Strip(Collapse(description))

\* text.split('\n')
RECURSIVE SplitLines(_)
SplitLines(t) ==
  LET k == First(t, {"\n"}) IN
  IF k = 0 THEN <<t>> ELSE <<SubSeq(t, 1, k - 1)>> \o SplitLines(SubSeq(t, k + 1, Len(t)))

\* the entries of a list stripped, the empty ones left out
Solid(ls) == SelectSeq([i \in 1..Len(ls) |-> Strip(ls[i])], LAMBDA l : l # <<>>)

\* [line.strip() for line in t.split('\n') if line.strip()]
SolidLines(t) == Solid(SplitLines(t))

\* len(line.split()): the headers "PULSE Command Ability" count three words
WordCount(line) ==
  Cardinality({ i \in 1..Len(line) : ~IsSpace(line[i]) /\ (i = 1 \/ IsSpace(line[i - 1])) })
  + 2 * Cardinality({ i \in 1..Len(line) : line[i] \in Markers })
  + Cardinality({ i \in 1..Len(line) : line[i] = AbilitiesAnchor })

(* The cleaning of the section text *)

\* re.sub(r'<bullet>\s*', '', t)
RECURSIVE DropBullets(_)
DropBullets(t) ==
  IF t = <<>> THEN <<>>
  ELSE IF t[1] = Bullet THEN DropBullets(SubSeq(t, SkipSpace(t, 2), Len(t)))
  ELSE <<t[1]>> \o DropBullets(Tail(t))

\* re.sub(r'([a-z])([A-Z])', r'\1 \2', t)
RECURSIVE SplitFused(_)
SplitFused(t) ==
  IF Len(t) < 2 THEN t
  ELSE IF EndsLower(t[1]) /\ Capital(t[2]) THEN <<t[1], " ">> \o SplitFused(Tail(t))
  ELSE <<t[1]>> \o SplitFused(Tail(t))

\* re.sub(r'(PULSE|AURA)\s*Command Ability\s*', r'\1 Command Ability\n', t)
RECURSIVE BreakAfterMarkers(_)
BreakAfterMarkers(t) ==
  IF t = <<>> THEN <<>>
  ELSE IF t[1] \in Markers
       THEN <<t[1], "\n">> \o BreakAfterMarkers(SubSeq(t, SkipSpace(t, 2), Len(t)))
  ELSE <<t[1]>> \o BreakAfterMarkers(Tail(t))

\* re.sub(r'[ \t]+', ' ', t)
RECURSIVE OneBlank(_)
OneBlank(t) ==
  IF Len(t) < 2 THEN t
  ELSE IF t[1] = " " /\ t[2] = " " THEN OneBlank(Tail(t))
  ELSE <<t[1]>> \o OneBlank(Tail(t))

\* cleaned_text of enhanced_parse_abilities (no "!" in these texts)
Clean(abilities_text) == OneBlank(BreakAfterMarkers(SplitFused(DropBullets(abilities_text))))

\* re.search(r'Character Abilities\s*<bullet>?\s*(.*?)(?=\n\d+\.\d+\.\d+|$)', text):
\* None, or the section text
AbilitiesText(t) ==
  LET a == First(t, {AbilitiesAnchor}) IN
  IF a = 0 THEN None
  ELSE LET p == SkipSpace(t, a + 1)
           q == IF p <= Len(t) /\ t[p] = Bullet THEN SkipSpace(t, p + 1) ELSE p
           ends == { j \in q..(Len(t) + 1) :
                       \/ j = Len(t) + 1
                       \/ j = Len(t) /\ t[j] = "\n"
                       \/ j < Len(t) /\ t[j] = "\n" /\ t[j + 1] = VersionSym }
       IN Some(SubSeq(t, q, Min(ends) - 1))

(* parse_command_abilities *)

\* re.findall(command_pattern, cleaned_text): the description of the first
\* header runs to the end of the section, so there is one block at most:
\* None, or [pre_text, command_type, description]
CommandBlock(cleaned_text) ==
  LET m == First(cleaned_text, Markers) IN
  IF m = 0 \/ m = Len(cleaned_text) \/ cleaned_text[m + 1] # "\n" THEN None
  ELSE LET rest == SubSeq(cleaned_text, m + 2, Len(cleaned_text))
       IN Some([ pre_text |-> Strip(SubSeq(cleaned_text, 1, m - 1)),
                 command_type |-> cleaned_text[m],
                 description |-> Strip(rest) ])

\* the fragments of the pre-marker lines, in order: every line segmented,
\* every fragment stripped, the empty ones left out
RECURSIVE LineFragments(_, _)
LineFragments(lines, known) ==
  IF lines = <<>> THEN <<>>
  ELSE Solid(separate_concatenated_abilities(Head(lines), known))
         \o LineFragments(Tail(lines), known)

\* the names the matcher gives for the fragments it knows, in order
KnownNames(fs, known) ==
  SelectSeq([i \in 1..Len(fs) |-> normalize_ability_name(fs[i], known)], LAMBDA x : x # <<>>)

\* found_commons: the matched names, each once, in the order of the first
RECURSIVE Distinct(_)
Distinct(fs) ==
  IF fs = <<>> THEN <<>>
  ELSE LET rest == Distinct(SubSeq(fs, 1, Len(fs) - 1))
           x == fs[Len(fs)]
       IN IF \E i \in 1..Len(rest) : rest[i] = x THEN rest ELSE Append(rest, x)

\* the first of the fragments fs the matcher does not know, else the last
\* line, else ""
NameAmong(lines, fs, known) ==
  LET odd == { i \in 1..Len(fs) : normalize_ability_name(fs[i], known) = <<>> }
  IN IF odd # {} THEN fs[Min(odd)]
     ELSE IF lines # <<>> THEN lines[Len(lines)]
     ELSE <<>>

\* variant: the last line always taken as the name
CommandName_last(lines, known) == IF lines = <<>> THEN <<>> ELSE lines[Len(lines)]

\* command_name: the first fragment the matcher does not know, else the last
\* line, else ""
CommandName(lines, known) == NameAmong(lines, LineFragments(lines, known), known)

CommandAbility(n, ty, d) == [name |-> n, type |-> ty, description |-> d]

\* the record of a block, appended when the name is not empty
CommandRecord(blk, command_name) ==
  IF command_name # <<>>
  THEN <<CommandAbility(command_name, blk.command_type, normalize_description(blk.description))>>
  ELSE <<>>

\* the body of  for match_groups in command_matches  on the lines before
\* the header
BlockAbilities(blk, lines, known) ==
  [ command |-> CommandRecord(blk, CommandName(lines, known)),
    common |-> Distinct(KnownNames(LineFragments(lines, known), known)) ]

CommandsOf(b, known) ==
  IF b = None THEN [command |-> <<>>, common |-> <<>>]
  ELSE BlockAbilities(b[1], SolidLines(b[1].pre_text), known)

\* parse_command_abilities(cleaned_text, known): [command, common]
parse_command_abilities(cleaned_text, known) == CommandsOf(CommandBlock(cleaned_text), known)

(* parse_remaining_abilities *)

\* re.sub(r'.*?(PULSE|AURA)\s*Command Ability\s*.*?(?=\n[A-Z]|\d+\.\d+\.\d+|$)', '', t):
\* everything up to the header, the header and what follows it up to the
\* next line that starts with a capital is taken away, again and again
RECURSIVE RemoveCommands(_)
RemoveCommands(t) ==
  LET m == First(t, Markers) IN
  IF m = 0 THEN t
  ELSE LET p == SkipSpace(t, m + 1)
           ends == { j \in p..(Len(t) + 1) :
                       \/ j = Len(t) + 1
                       \/ j = Len(t) /\ t[j] = "\n"
                       \/ j < Len(t) /\ t[j] = "\n" /\ Capital(t[j + 1])
                       \/ j <= Len(t) /\ t[j] = VersionSym }
       IN RemoveCommands(SubSeq(t, Min(ends), Len(t)))

\* re.match(r'^\s*\([^)]*\)\s*$', ability_text) on a stripped fragment
LoneParens(f) ==
  /\ Len(f) >= 2
  /\ f[1] = "("
  /\ f[Len(f)] = ")"
  /\ \A i \in 2..(Len(f) - 1) : f[i] # ")"

\* (?=\n[A-Z][a-z]|\n\d+\.\d+\.\d+|\n<bullet>|$) at position j of t
DescriptionEnds(t, j) ==
  \/ j = Len(t) + 1
  \/ j = Len(t) /\ t[j] = "\n"
  \/ j < Len(t) /\ t[j] = "\n"
       /\ (CapitalLower(t[j + 1]) \/ t[j + 1] = VersionSym \/ t[j + 1] = Bullet)

\* what may not stand in a description: 'Actions Life Will' and 'Range
\* Evasion' are in none of these texts
Excluded(p, d) ==
  \E i \in 1..Len(d) : d[i] = MindHeader \/ (p = "enhanced" /\ d[i] \in Markers)

\* potential_desc, used unless it is empty or holds card data
Usable(p, potential_desc) ==
  IF potential_desc # <<>> /\ ~Excluded(p, potential_desc)
  THEN normalize_description(potential_desc) ELSE <<>>

\* the text from q up to the next line that starts like a name
DescriptionFrom(p, original_text, q) ==
  Usable(p, Strip(SubSeq(original_text, q,
                         Min({ k \in q..(Len(original_text) + 1) :
                                 DescriptionEnds(original_text, k) }) - 1)))

\* the description looked up in the page text: what follows the first place
\* where the name stands, up to the next line that starts like a name
DescriptionOf(p, ability_text, original_text) ==
  LET at == { i \in 1..Len(original_text) : FoundAt(original_text, i, ability_text) } IN
  IF at = {} THEN <<>>
  ELSE DescriptionFrom(p, original_text,
                       SkipSpace(original_text, Min(at) + Len(ability_text)))

\* whether a fragment the matcher does not know becomes a unique ability
IsUnique(p, f) ==
  /\ WordCount(f) <= 8
  /\ ~LoneParens(f)
  /\ f # <<".">>
  /\ p = "enhanced" => ~EndsWith(f, <<" ", ".">>)

\* the fragments stripped, without the empty ones and those with card data
Kept(fs) == SelectSeq(Solid(fs), LAMBDA f : \A i \in 1..Len(f) : f[i] # MindHeader)

\* the unique abilities of the fragments, each with its description
UniqueOf(p, others, original_text) ==
  [i \in 1..Len(others) |-> Ability(others[i], DescriptionOf(p, others[i], original_text))]

\* the body of  for ability_text in separated_abilities
RemainingOf(p, fs, known, original_text) ==
  [ common |-> KnownNames(fs, known),
    unique |-> UniqueOf(p, SelectSeq(fs, LAMBDA f : normalize_ability_name(f, known) = <<>>
                                                      /\ IsUnique(p, f)),
                        original_text) ]

\* parse_remaining_abilities(cleaned_text, known, original_text) and the same
\* lines of the universal parser: [common, unique]
parse_remaining_abilities(p, cleaned_text, known, original_text) ==
  RemainingOf(p, Kept(separate_concatenated_abilities(RemoveCommands(cleaned_text), known)),
              known, original_text)

(* parse_outside_unique_abilities *)

\* the words that mark a line as description text
DescriptionWords == {"friendly", KeywordsAnchor, AbilitiesAnchor}

\* is_ability_name: a short line that starts with a capital, holds none of
\* the description words and does not end with a full stop (the two tests
\* that follow in the code are on lines that end with a full stop as well)
IsNameLine(line) ==
  /\ WordCount(line) <= 3
  /\ CharLen(line) > 2
  /\ IsUpper(line[1])
  /\ \A i \in 1..Len(line) : line[i] \notin DescriptionWords
  /\ line[Len(line)] # "."

\* re.search(outside_abilities_pattern, text): None, or the stripped text
\* between the line of numbers under the stat header and the first of
\* "Keywords" and "Character Abilities"
OutsideText(t) ==
  LET heads == { a \in 1..Len(t) :
                   /\ t[a] = MindHeader
                   /\ \E k \in (a + 1)..(SkipSpace(t, a + 1) - 1) : t[k] = "\n"
                   /\ \E e \in (a + 1)..Len(t) : t[e] \in {KeywordsAnchor, AbilitiesAnchor} }
  IN IF heads = {} THEN None
     ELSE LET a == Min(heads)
              e == Min({ k \in (a + 1)..Len(t) : t[k] \in {KeywordsAnchor, AbilitiesAnchor} })
          IN Some(Strip(SubSeq(t, a + 1, e - 1)))

\* '\n'.join(lines)
RECURSIVE JoinLines(_)
JoinLines(ls) ==
  IF ls = <<>> THEN <<>>
  ELSE IF Len(ls) = 1 THEN ls[1]
  ELSE ls[1] \o <<"\n">> \o JoinLines(Tail(ls))

\* the ability that is open, given to the list unless the matcher knows its name
CloseAbility(st, known) ==
  IF st.current_ability # None /\ normalize_ability_name(st.current_ability[1], known) = <<>>
  THEN Append(st.unique_abilities,
              Ability(st.current_ability[1],
                      normalize_description(JoinLines(st.current_description_lines))))
  ELSE st.unique_abilities

\* variant: the description lines of the ability before carried over
OutsideStep_carry(st, line, known) ==
  IF IsNameLine(line)
  THEN [ current_ability |-> Some(line),
         current_description_lines |-> st.current_description_lines,
         unique_abilities |-> CloseAbility(st, known) ]
  ELSE IF st.current_ability # None
       THEN [st EXCEPT !.current_description_lines = Append(@, line)]
  ELSE st

\* the body of  for line in lines  on a stripped line that is not empty
OutsideStep(st, line, known) ==
  IF IsNameLine(line)
  THEN [ current_ability |-> Some(line),
         current_description_lines |-> <<>>,
         unique_abilities |-> CloseAbility(st, known) ]
  ELSE IF st.current_ability # None
       THEN [st EXCEPT !.current_description_lines = Append(@, line)]
  ELSE st

RECURSIVE OutsideLoop(_, _, _)
OutsideLoop(st, lines, known) ==
  IF lines = <<>> THEN st ELSE OutsideLoop(OutsideStep(st, Head(lines), known), Tail(lines), known)

parse_outside_unique_abilities(t, known) ==
  LET o == OutsideText(t) IN
  IF o = None THEN <<>>
  ELSE CloseAbility(OutsideLoop([ current_ability |-> None,
                                  current_description_lines |-> <<>>,
                                  unique_abilities |-> <<>> ],
                                SolidLines(o[1]), known), known)

(* enhanced_parse_abilities *)

NoAbilities == [common |-> <<>>, unique |-> <<>>, command |-> <<>>]

\* the three lists of parse_cards.py: the common abilities of the command
\* block before those of the rest, the abilities outside the section before
\* those of the section
Combined(outside, cmd, rest) ==
  [ common |-> cmd.common \o rest.common,
    unique |-> outside \o rest.unique,
    command |-> cmd.command ]

SectionEnhanced(t, outside, cleaned_text, known) ==
  Combined(outside, parse_command_abilities(cleaned_text, known),
           parse_remaining_abilities("enhanced", cleaned_text, known, t))

EnhancedOf(t, outside, section, known) ==
  IF section = None THEN [NoAbilities EXCEPT !.unique = outside]
  ELSE SectionEnhanced(t, outside, Clean(section[1]), known)

\* parse_cards.py: the abilities outside the section, the command block
\* with the common abilities before its header, then the rest
AbilitiesEnhanced(t, known) ==
  EnhancedOf(t, parse_outside_unique_abilities(t, known), AbilitiesText(t), known)

UnknownCommand == <<"Unknown Command">>

\* the command of the universal parser: named by the last line before the
\* header
UniversalCommand(blk, lines) ==
  CommandAbility(IF lines # <<>> THEN lines[Len(lines)] ELSE UnknownCommand,
                 blk.command_type, normalize_description(blk.description))

CombinedUniversal(b, rest) ==
  [ common |-> rest.common,
    unique |-> rest.unique,
    command |-> IF b = None THEN <<>>
                ELSE <<UniversalCommand(b[1], SolidLines(b[1].pre_text))>> ]

SectionUniversal(t, cleaned_text, known) ==
  CombinedUniversal(CommandBlock(cleaned_text),
                    parse_remaining_abilities("universal", cleaned_text, known, t))

UniversalOf(t, section, known) ==
  IF section = None THEN NoAbilities ELSE SectionUniversal(t, Clean(section[1]), known)

\* parse_all_factions.py: the command block named by the last line before
\* its header, then the rest
AbilitiesUniversal(t, known) == UniversalOf(t, AbilitiesText(t), known)

ParseAbilities(p, t, known) ==
  IF p = "universal" THEN AbilitiesUniversal(t, known) ELSE AbilitiesEnhanced(t, known)

-----------------------------------------------------------------------------
(* One call of enhanced_parse_abilities *)

MaxEntries == 2      \* entries of the ability section before the command header
MaxOutside == 3      \* lines between the stat block and the keyword line

\* try: json.load(...).get('common_abilities', []); except FileNotFoundError: []
load_known_abilities(file) == IF file = None THEN <<>> ELSE file[1]

ReferenceFiles == {None, Some(<<Engage, CompanionX>>)}

StealsDucats == <<"Steals", " ", "ducats", ".">>
FriendlyDucats == <<"friendly", " ", "ducats">>

\* the lines between the stat block and the keyword line
OutsideLines == { <<"Cutpurse">>, Engage, StealsDucats, FriendlyDucats }

OutsideTexts ==
  { Concat([i \in 1..Len(ls) |-> ls[i] \o <<"\n">>]) : ls \in SeqsUpTo(OutsideLines, MaxOutside) }

\* the entries of the section before the command header, each on its own
\* line or after a blank
Entries == { Engage, Companion2, <<"Cutpurse">>, <<"Rally">> }

RECURSIVE Joined(_, _)
Joined(es, seps) ==
  IF es = <<>> THEN <<>>
  ELSE IF Len(es) = 1 THEN es[1]
  ELSE es[1] \o seps[1] \o Joined(Tail(es), Tail(seps))

EntryLists ==
  { Joined(es, seps) : es \in SeqsUpTo(Entries, MaxEntries),
                       seps \in [1..MaxEntries -> {<<"\n">>, <<" ">>}] }

\* what follows the entries: nothing, a command header with its
\* description, a header without description, and a header whose
\* description is followed by an ability
CommandTails ==
  { <<>>,
    <<"\n", "PULSE", "\n">> \o FriendlyDucats \o <<"\n">> \o StealsDucats,
    <<"\n", "AURA">>,
    <<"\n", "PULSE", " ", "\n">> \o FriendlyDucats \o <<"\n">> \o Engage }

PageOf(outside, section) ==
  <<MindHeader, "\n">> \o outside \o <<KeywordsAnchor, "\n", AbilitiesAnchor, "\n", Bullet, " ">>
    \o section \o <<"\n", VersionSym>>

\* pages with a section and nothing or one ability outside, pages with
\* lines outside and an empty section, a page without section and a page
\* without stat header
AbilityTexts ==
  { PageOf(o, es \o tl) : o \in {<<>>, <<"Cutpurse", "\n">> \o StealsDucats \o <<"\n">>},
                          es \in EntryLists, tl \in CommandTails }
  \cup { PageOf(o, <<>>) : o \in OutsideTexts }
  \cup { <<MindHeader, "\n", "Cutpurse", "\n", KeywordsAnchor, "\n", VersionSym>>,
         <<KeywordsAnchor, "\n", AbilitiesAnchor, "\n">> \o Engage \o <<"\n", VersionSym>> }

\* card_data["abilities"] = enhanced_parse_abilities(card_text)
CallParseAbilities ==
  /\ cpc = "call"
  /\ known_abilities' = load_known_abilities(reference_file)
  /\ loaded' = Append(loaded, load_known_abilities(reference_file))
  /\ result' = ("abilities" :> ParseAbilities(parser, text, load_known_abilities(reference_file)))
  /\ cpc' = "returned"
  /\ UNCHANGED <<parser, text, page_num, item, ability_name, separated, matched,
                 reference_file, apc, loopVars, valVars, batchVars, buildVars>>

InitAbilities ==
  /\ LoopIdle
  /\ ValIdle
  /\ BatchIdle
  /\ BuildIdle
  /\ item = <<>>
  /\ ability_name = <<>>
  /\ known_abilities = <<>>
  /\ separated = <<>>
  /\ matched = <<>>
  /\ reference_file \in ReferenceFiles
  /\ loaded = <<>>
  /\ apc = "idle"
  /\ parser \in Parsers
  /\ text \in AbilityTexts
  /\ page_num = 0
  /\ result = <<>>
  /\ cpc = "call"

NextAbilities == CallParseAbilities

SpecAbilities == InitAbilities /\ [][NextAbilities]_vars

-----------------------------------------------------------------------------
(* Claims about the abilities of a card *)

AbilitiesOf(r) == r["abilities"]

\* C21 (as claimed): the common abilities of a card hold no entry twice.
C21_NoRepeatedCommon ==
  Returned =>
    LET c == AbilitiesOf(result).common IN
    \A i, j \in 1..Len(c) : c[i] = c[j] => i = j

\* C22 (as claimed): every unique ability and every command ability of a
\* card has a name and a description that are not empty.
C22_AbilitiesComplete ==
  Returned =>
    LET all == AbilitiesOf(result).unique \o AbilitiesOf(result).command IN
    \A i \in 1..Len(all) : all[i].name # <<>> /\ all[i].description # <<>>

\* the cleaned section of the page, its first command header and the lines
\* before it that are not blank
Section == LET a == AbilitiesText(text) IN IF a = None THEN <<>> ELSE Clean(a[1])
HeaderAt == First(Section, Markers)
PreLines == IF HeaderAt = 0 THEN <<>> ELSE SolidLines(SubSeq(Section, 1, HeaderAt - 1))

\* the fragments of the lines before the header: each line cut by the
\* segmenter, in order
PreFragments == LineFragments(PreLines, known_abilities)

Accepted(f) == normalize_ability_name(f, known_abilities) # <<>>

\* no line break, no two blanks in a row, no blank at either end
OneLine(d) ==
  /\ \A i \in 1..Len(d) : d[i] # "\n"
  /\ \A i \in 1..(Len(d) - 1) : ~(d[i] = " " /\ d[i + 1] = " ")
  /\ d # <<>> => d[1] # " " /\ d[Len(d)] # " "

OutsideOf == LET o == OutsideText(text) IN IF o = None THEN <<>> ELSE SolidLines(o[1])
NameLines == { i \in 1..Len(OutsideOf) : IsNameLine(OutsideOf[i]) }

\* the lines after name line i up to the next name line
DescriptionLines(i) ==
  LET later == { j \in NameLines : j > i }
      stop == IF later = {} THEN Len(OutsideOf) + 1 ELSE Min(later)
  IN SubSeq(OutsideOf, i + 1, stop - 1)

Ascend(S) == CHOOSE f \in [1..Cardinality(S) -> S] : \A a, b \in 1..Cardinality(S) : a < b => f[a] < f[b]

\* C26: outside the section every name line opens an ability and the lines
\* up to the next name line are its description; the lines before the first
\* name line are dropped; the abilities whose name the matcher does not
\* accept are the first unique abilities of the card, once each and in line
\* order, with their description lines joined on one line.
C26_OutsideScan ==
  (Returned /\ parser = "enhanced") =>
    LET open == Ascend({ i \in NameLines : ~Accepted(OutsideOf[i]) })
        emitted == [k \in 1..Len(open) |->
                      Ability(OutsideOf[open[k]],
                              normalize_description(JoinLines(DescriptionLines(open[k]))))]
        unique == AbilitiesOf(result).unique
    IN /\ Len(unique) >= Len(emitted)
       /\ SubSeq(unique, 1, Len(emitted)) = emitted
       /\ \A k \in 1..Len(emitted) : OneLine(emitted[k].description)

\* a line before the first name line was dropped, an ability the matcher
\* accepts was opened and its description dropped, and an ability was given
\* out with its description
C26_Witness ==
  /\ Returned /\ parser = "enhanced"
  /\ known_abilities # <<>>
  /\ \/ /\ Len(OutsideOf) = 3
        /\ 1 \notin NameLines /\ 2 \in NameLines /\ 3 \notin NameLines
        /\ AbilitiesOf(result).unique[1] = Ability(OutsideOf[2], OutsideOf[3])
     \/ /\ Len(OutsideOf) = 3
        /\ NameLines = {1, 3}
        /\ Accepted(OutsideOf[1]) /\ ~Accepted(OutsideOf[3])
        /\ AbilitiesOf(result).unique[1] = Ability(OutsideOf[3], <<>>)

\* C27 (as claimed): on the same page and reference the two parsers give
\* the same common abilities, the same unique names and the same command
\* names.
C27_ParsersAgree ==
  Returned =>
    LET mine == AbilitiesOf(result)
        other == ParseAbilities(IF parser = "universal" THEN "enhanced" ELSE "universal",
                                text, known_abilities)
        Names(as) == [i \in 1..Len(as) |-> as[i].name]
    IN /\ mine.common = other.common
       /\ Names(mine.unique) = Names(other.unique)
       /\ Names(mine.command) = Names(other.command)

-----------------------------------------------------------------------------
(* One run over the pages of a faction: parsed_abilities.json is opened by
   load_known_abilities inside enhanced_parse_abilities, once for every page,
   while other programs may write the file *)

RunTexts ==
  { PageOf(<<>>, Engage),
    PageOf(<<>>, Companion2 \o <<"\n", "Cutpurse", "\n", "PULSE", "\n">> \o FriendlyDucats
                   \o <<"\n">> \o StealsDucats),
    PageOf(<<"Cutpurse", "\n">> \o StealsDucats \o <<"\n">>, <<"Rally">>) }

\* the pages of extracted_text.json after the first
RunPages(ts) == [i \in 1..Len(ts) |-> [page |-> i + 1, text |-> ts[i]]]

\* one pass of  for page in pages  on a card page: the card's abilities
\* are parsed against what load_known_abilities reads at that moment
ParsePage ==
  /\ lpc = "loop"
  /\ idx < Len(pages)
  /\ LET pg == pages[idx + 1]
         known == load_known_abilities(reference_file)
     IN /\ idx' = idx + 1
        /\ known_abilities' = known
        /\ loaded' = Append(loaded, known)
        /\ cards' = Append(cards, [page |-> pg.page,
                                   abilities |-> ParseAbilities(parser, pg.text, known)])
  /\ UNCHANGED <<pages, faction_ability, lpc, cardVars, valVars, batchVars, buildVars,
                 item, ability_name, separated, matched, reference_file, apc>>

\* what extract_rulebook_abilities.py can write to parsed_abilities.json
WrittenFiles == { Some(<<Engage, CompanionX>>), Some(<<Engage>>) }

\* extract_rulebook_abilities.py writes parsed_abilities.json during the run
WriteReference ==
  /\ lpc = "loop"
  /\ reference_file' \in WrittenFiles \ {reference_file}
  /\ UNCHANGED <<cardVars, loopVars, valVars, batchVars, buildVars,
                 item, ability_name, known_abilities, separated, matched, loaded, apc>>

\* the loop is over and the cards are written
FinishRun ==
  /\ lpc = "loop"
  /\ idx = Len(pages)
  /\ lpc' = "done"
  /\ UNCHANGED <<pages, idx, cards, faction_ability, cardVars, valVars, batchVars, buildVars, abilVars>>

InitReference ==
  /\ parser \in Parsers
  /\ text = <<>>
  /\ page_num = 0
  /\ result = <<>>
  /\ cpc = "idle"
  /\ pages \in { RunPages(ts) : ts \in SeqsUpTo(RunTexts, MaxPages) }
  /\ idx = 0
  /\ cards = <<>>
  /\ faction_ability = None
  /\ lpc = "loop"
  /\ ValIdle
  /\ BatchIdle
  /\ BuildIdle
  /\ item = <<>>
  /\ ability_name = <<>>
  /\ known_abilities = <<>>
  /\ separated = <<>>
  /\ matched = <<>>
  /\ reference_file \in ReferenceFiles
  /\ loaded = <<>>
  /\ apc = "idle"

NextReference == ParsePage \/ WriteReference \/ FinishRun

SpecReference == InitReference /\ [][NextReference]_vars

\* C25 (as claimed): all pages of one run are parsed against the same
\* reference, whatever is written to the reference file during the run.
C25_OneReferencePerRun ==
  \A i, j \in 1..Len(loaded) : loaded[i] = loaded[j]

====
